---- MODULE Spec2Model ----
(***************************************************************************)
(* Source-control (SCM) state synchronisation between the plugin host      *)
(* (Provider Side, plugin/scm.ts) and the browser (Mirror Side,            *)
(* main/browser/scm-main.ts).                                              *)
(***************************************************************************)
EXTENDS Integers, Sequences, FiniteSets, TLC

(***************************************************************************)
(* Bounds of the model.                                                    *)
(***************************************************************************)
\* longest declared resourceStates array
MaxLen == 2

\* resource handles one group may draw from its pool
MaxResourceHandles == 3

\* Provider-to-Mirror calls in flight
MaxInFlight == 2

\* safe-command registrations a source control may make
MaxSafeCommands == 3

\* onType calls of a QuickFileOpenService
MaxSearches == 3

\* resource handles a group of the three-file scenario may draw
MaxScenarioHandles == 5

\* longest array assigned in the three-file scenario
MaxScenarioLen == 3

(***************************************************************************)
(* JavaScript values.  undefined is the string "undefined"; an absent      *)
(* object (command, decorations, themable decorations) is the record       *)
(* Absent; a boolean-or-undefined flag is "true", "false" or "undefined".   *)
(***************************************************************************)
Undef == "undefined"

\* undefined where a handle (a number) is expected
NoHandle == -1

Absent == [absent |-> TRUE]

IsAbsent(x) == "absent" \in DOMAIN x

\* truthiness of a flag (boolean | undefined)
Truthy(f) == f = "true"

\* !!flag
ToBool(f) == IF f = "true" THEN "true" ELSE "false"

\* s || '' for a string-or-undefined
OrEmpty(s) == IF s = Undef THEN "" ELSE s

\* The strings of the model, in UTF-16 code-unit order (the order of JavaScript's
\* < on strings).
StringOrder == <<"", "B.txt", "a.txt", "b.txt", "c.txt", "d.txt", "git.open",
                 "icon.svg", "open", "src", "theia.diff", "theia.open", "tip", "x">>

StrRank(s) == CHOOSE i \in 1..Len(StringOrder) : StringOrder[i] = s

\* a < b on strings
StrLt(a, b) == StrRank(a) < StrRank(b)

\* String.prototype.toLowerCase on the strings of the model
ToLowerCase(s) == IF s = "B.txt" THEN "b.txt" ELSE s

\* String.prototype.localeCompare on the strings of the model: equal strings
\* give 0; case variants of one word order lower case first; otherwise
\* alphabetical.
LocaleCompare(a, b) ==
    IF a = b THEN 0
    ELSE IF ToLowerCase(a) = ToLowerCase(b)
         THEN (IF a = ToLowerCase(a) THEN -1 ELSE 1)
         ELSE (IF StrLt(ToLowerCase(a), ToLowerCase(b)) THEN -1 ELSE 1)

(***************************************************************************)
(* paths-util comparePaths: a path is its sequence of segments.            *)
(***************************************************************************)
comparePathComponents(one, other, ignoreCase) ==
    LET a == IF ignoreCase THEN ToLowerCase(one) ELSE one
        b == IF ignoreCase THEN ToLowerCase(other) ELSE other
    IN IF a = b THEN 0 ELSE IF StrLt(a, b) THEN -1 ELSE 1

RECURSIVE comparePathsFrom(_, _, _, _)
comparePathsFrom(one, other, ignoreCase, i) ==
    LET endOne == (i = Len(one))
        endOther == (i = Len(other))
    IN IF endOne /\ endOther THEN comparePathComponents(one[i], other[i], ignoreCase)
       ELSE IF endOne THEN -1
       ELSE IF endOther THEN 1
       ELSE LET r == comparePathComponents(one[i], other[i], ignoreCase)
            IN IF r # 0 THEN r ELSE comparePathsFrom(one, other, ignoreCase, i + 1)

comparePaths(one, other, ignoreCase) == comparePathsFrom(one, other, ignoreCase, 1)

(***************************************************************************)
(* The comparators of plugin/scm.ts.                                       *)
(***************************************************************************)
\* a themable decoration is [iconPath |-> path]; an absent iconPath is <<>>
compareResourceThemableDecorations(a, b) ==
    IF a.iconPath = <<>> /\ b.iconPath = <<>> THEN 0
    ELSE IF a.iconPath = <<>> THEN -1
    ELSE IF b.iconPath = <<>> THEN 1
    ELSE comparePaths(a.iconPath, b.iconPath, FALSE)

compareResourceStatesDecorations(a, b) ==
    IF a.strikeThrough # b.strikeThrough THEN (IF Truthy(a.strikeThrough) THEN 1 ELSE -1)
    ELSE IF a.faded # b.faded THEN (IF Truthy(a.faded) THEN 1 ELSE -1)
    ELSE IF a.tooltip # b.tooltip THEN LocaleCompare(OrEmpty(a.tooltip), OrEmpty(b.tooltip))
    ELSE LET r0 == compareResourceThemableDecorations(a, b) IN
    IF r0 # 0 THEN r0
    ELSE IF IsAbsent(a.light) /\ ~IsAbsent(b.light) THEN -1
    ELSE IF ~IsAbsent(a.light) /\ IsAbsent(b.light) THEN 1
    ELSE LET r1 == IF IsAbsent(a.light) THEN 0
                   ELSE compareResourceThemableDecorations(a.light, b.light) IN
    IF r1 # 0 THEN r1
    ELSE IF IsAbsent(a.dark) /\ ~IsAbsent(b.dark) THEN -1
    ELSE IF ~IsAbsent(a.dark) /\ IsAbsent(b.dark) THEN 1
    ELSE IF IsAbsent(a.dark) THEN 0
    ELSE compareResourceThemableDecorations(a.dark, b.dark)

\* arguments: Absent, or [items |-> sequence of strings]
RECURSIVE compareArgsFrom(_, _, _)
compareArgsFrom(a, b, i) ==
    IF i > Len(a) THEN 0
    ELSE IF a[i] = b[i] THEN compareArgsFrom(a, b, i + 1)
    ELSE IF StrLt(a[i], b[i]) THEN -1 ELSE 1

compareCommands(a, b) ==
    IF a.command # b.command THEN (IF StrLt(a.command, b.command) THEN -1 ELSE 1)
    ELSE IF a.title # b.title THEN (IF StrLt(a.title, b.title) THEN -1 ELSE 1)
    ELSE IF a.tooltip # b.tooltip /\ a.tooltip # Undef /\ b.tooltip # Undef
         THEN (IF StrLt(a.tooltip, b.tooltip) THEN -1 ELSE 1)
    ELSE IF a.tooltip # b.tooltip /\ a.tooltip # Undef THEN 1
    ELSE IF a.tooltip # b.tooltip /\ b.tooltip # Undef THEN -1
    \* the arguments arrays of two resource states are distinct array objects,
    \* so a.arguments === b.arguments holds only when both are undefined
    ELSE IF IsAbsent(a.arguments) /\ IsAbsent(b.arguments) THEN 0
    ELSE IF IsAbsent(a.arguments) THEN -1
    ELSE IF IsAbsent(b.arguments) THEN 1
    ELSE IF Len(a.arguments.items) # Len(b.arguments.items)
         THEN Len(a.arguments.items) - Len(b.arguments.items)
    ELSE compareArgsFrom(a.arguments.items, b.arguments.items, 1)

compareResourceStates(a, b) ==
    LET r0 == comparePaths(a.resourceUri, b.resourceUri, TRUE) IN
    IF r0 # 0 THEN r0
    ELSE IF ~IsAbsent(a.command) /\ IsAbsent(b.command) THEN 1
    ELSE IF IsAbsent(a.command) /\ ~IsAbsent(b.command) THEN -1
    ELSE LET r1 == IF IsAbsent(a.command) THEN 0 ELSE compareCommands(a.command, b.command) IN
    IF r1 # 0 THEN r1
    ELSE IF ~IsAbsent(a.decorations) /\ IsAbsent(b.decorations) THEN 1
    ELSE IF IsAbsent(a.decorations) /\ ~IsAbsent(b.decorations) THEN -1
    ELSE IF IsAbsent(a.decorations) THEN 0
    ELSE compareResourceStatesDecorations(a.decorations, b.decorations)

(***************************************************************************)
(* Array.prototype.sort as Node's V8 runs it on an array shorter than 64   *)
(* elements (one run, extended by binary insertion); positions are 0-based *)
(* as in the engine, arr[p + 1] is the element at position p.              *)
(***************************************************************************)
Reverse(s) == [i \in 1..Len(s) |-> s[Len(s) + 1 - i]]

\* length of the run that starts the array, examined from 1-based index idx
RECURSIVE RunLength(_, _, _)
RunLength(arr, idx, descending) ==
    IF idx > Len(arr) THEN Len(arr)
    ELSE LET order == compareResourceStates(arr[idx], arr[idx - 1]) IN
         IF (descending /\ order >= 0) \/ (~descending /\ order < 0)
         THEN idx - 1
         ELSE RunLength(arr, idx + 1, descending)

RECURSIVE BinarySearch(_, _, _, _)
BinarySearch(arr, pivot, left, right) ==
    IF left >= right THEN left
    ELSE LET mid == left + ((right - left) \div 2) IN
         IF compareResourceStates(pivot, arr[mid + 1]) < 0
         THEN BinarySearch(arr, pivot, left, mid)
         ELSE BinarySearch(arr, pivot, mid + 1, right)

\* the array with the element at position start moved to position left
InsertPivot(arr, start, left) ==
    SubSeq(arr, 1, left) \o <<arr[start + 1]>> \o SubSeq(arr, left + 1, start)
    \o SubSeq(arr, start + 2, Len(arr))

RECURSIVE BinaryInsertionSort(_, _)
BinaryInsertionSort(arr, start) ==
    IF start >= Len(arr) THEN arr
    ELSE BinaryInsertionSort(
             InsertPivot(arr, start, BinarySearch(arr, arr[start + 1], 0, start)),
             start + 1)

\* the array with its first run made ascending
MakeRun(arr, run, descending) ==
    IF descending
    THEN Reverse(SubSeq(arr, 1, run)) \o SubSeq(arr, run + 1, Len(arr))
    ELSE arr

\* the first run is extended by binary insertion
SortFromRun(arr, run, descending) ==
    BinaryInsertionSort(MakeRun(arr, run, descending), run)

\* the first run is descending iff the second element compares below the first
CountAndMakeRun(arr, descending) ==
    SortFromRun(arr, RunLength(arr, 3, descending), descending)

SortResourceStates(arr) ==
    IF Len(arr) < 2 THEN arr
    ELSE CountAndMakeRun(arr, compareResourceStates(arr[2], arr[1]) < 0)

(***************************************************************************)
(* common/arrays sortedDiff: the splices, against `before`, that turn the  *)
(* sorted array `before` into the sorted array `after`.                    *)
(***************************************************************************)
pushSplice(result, start, deleteCount, toInsert) ==
    IF deleteCount = 0 /\ Len(toInsert) = 0 THEN result
    ELSE IF Len(result) > 0
            /\ result[Len(result)].start + result[Len(result)].deleteCount = start
         THEN [result EXCEPT ![Len(result)] =
                 [start |-> @.start, deleteCount |-> @.deleteCount + deleteCount,
                  toInsert |-> @.toInsert \o toInsert]]
         ELSE Append(result, [start |-> start, deleteCount |-> deleteCount,
                              toInsert |-> toInsert])

\* beforeIdx and afterIdx are 0-based
RECURSIVE sortedDiffFrom(_, _, _, _, _)
sortedDiffFrom(before, after, beforeIdx, afterIdx, result) ==
    IF beforeIdx = Len(before)
    THEN pushSplice(result, beforeIdx, 0, SubSeq(after, afterIdx + 1, Len(after)))
    ELSE IF afterIdx = Len(after)
    THEN pushSplice(result, beforeIdx, Len(before) - beforeIdx, <<>>)
    ELSE LET n == compareResourceStates(before[beforeIdx + 1], after[afterIdx + 1]) IN
         IF n = 0 THEN sortedDiffFrom(before, after, beforeIdx + 1, afterIdx + 1, result)
         ELSE IF n < 0
         THEN sortedDiffFrom(before, after, beforeIdx + 1, afterIdx,
                             pushSplice(result, beforeIdx, 1, <<>>))
         ELSE sortedDiffFrom(before, after, beforeIdx, afterIdx + 1,
                             pushSplice(result, beforeIdx, 0, <<after[afterIdx + 1]>>))

sortedDiff(before, after) == sortedDiffFrom(before, after, 0, 0, <<>>)

\* Array.prototype.splice(start, deleteCount, ...items) on a sequence
ArraySplice(arr, start, deleteCount, items) ==
    LET s == IF start > Len(arr) THEN Len(arr) ELSE start
        d == IF deleteCount > Len(arr) - s THEN Len(arr) - s ELSE deleteCount
    IN SubSeq(arr, 1, s) \o items \o SubSeq(arr, s + d + 1, Len(arr))

\* the elements Array.prototype.splice removes (its return value)
ArraySpliceDeleted(arr, start, deleteCount) ==
    LET s == IF start > Len(arr) THEN Len(arr) ELSE start
        d == IF deleteCount > Len(arr) - s THEN Len(arr) - s ELSE deleteCount
    IN SubSeq(arr, s + 1, s + d)

(***************************************************************************)
(* Resource states (theia.SourceControlResourceState) of the model.        *)
(***************************************************************************)
Plain(name) ==
    [resourceUri |-> <<name>>, command |-> Absent, decorations |-> Absent,
     contextValue |-> Undef]

Decorated(name, strike, fade) ==
    [resourceUri |-> <<name>>, command |-> Absent,
     decorations |-> [strikeThrough |-> strike, faded |-> fade, tooltip |-> Undef,
                      iconPath |-> <<>>, light |-> Absent, dark |-> Absent],
     contextValue |-> Undef]

WithCommand(name, id) ==
    [resourceUri |-> <<name>>,
     command |-> [command |-> id, title |-> "open", tooltip |-> Undef,
                  arguments |-> [items |-> <<name>>]],
     decorations |-> Absent, contextValue |-> Undef]

\* the resource states the declared arrays are drawn from
ResourceStates ==
    { Plain("a.txt"), Plain("b.txt"), Plain("c.txt"),
      Decorated("b.txt", Undef, Undef), Decorated("b.txt", "false", "false"),
      Decorated("b.txt", "true", Undef),
      [Plain("b.txt") EXCEPT !.contextValue = "x"],
      WithCommand("a.txt", "git.open"), WithCommand("a.txt", "theia.open") }

SeqsUpTo(S, n) == UNION { [1..k -> S] : k \in 0..n }

(***************************************************************************)
(* Map<K, V> as a function with a finite domain.                           *)
(***************************************************************************)
EmptyMap == <<>>

MapSet(m, k, v) == [x \in (DOMAIN m) \cup {k} |-> IF x = k THEN v ELSE m[x]]

MapDelete(m, k) == [x \in (DOMAIN m) \ {k} |-> m[x]]

RECURSIVE MapDeleteAll(_, _)
MapDeleteAll(m, ks) ==
    IF Len(ks) = 0 THEN m ELSE MapDeleteAll(MapDelete(m, ks[1]), Tail(ks))

SeqRange(s) == { s[i] : i \in 1..Len(s) }

(***************************************************************************)
(* ExtHostSourceControlResourceGroup.                                      *)
(***************************************************************************)
\* a group object as its constructor and field initialisers leave it
NewResourceGroup(handle, sourceControlHandle, id) ==
    [handle |-> handle,
     sourceControlHandle |-> sourceControlHandle,
     id |-> id,
     label |-> id,
     hideWhenEmpty |-> Undef,
     listening |-> FALSE,
     resourceHandlePool |-> 0,
     resourceStates |-> <<>>,
     resourceStatesMap |-> EmptyMap,
     resourceStatesCommandsMap |-> EmptyMap,
     resourceStatesDisposablesMap |-> EmptyMap,
     disposedDisposables |-> {},
     disposed |-> FALSE,
     handlesSnapshot |-> <<>>,
     resourceSnapshot |-> <<>>]

\* getIconResource: the icon path, <<>> when there is none
getIconResource(decorations) ==
    IF IsAbsent(decorations) THEN <<>> ELSE decorations.iconPath

IsBuiltinCommand(id) == id \in {"theia.open", "theia.diff"}

\* CommandsConverter.toSafeCommand: the descriptor that crosses the boundary
toSafeCommand(command) == [id |-> command.command, title |-> command.title]

\* the raw resource built for resource state r under a handle (scm.ts 372-402)
RawResource(handle, r) ==
    LET iconUri == getIconResource(r.decorations)
        lightOwn == IF IsAbsent(r.decorations) THEN <<>> ELSE getIconResource(r.decorations.light)
        darkOwn == IF IsAbsent(r.decorations) THEN <<>> ELSE getIconResource(r.decorations.dark)
        lightIconUri == IF lightOwn # <<>> THEN lightOwn ELSE iconUri
        darkIconUri == IF darkOwn # <<>> THEN darkOwn ELSE iconUri
        icons == (IF lightIconUri # <<>> THEN <<lightIconUri>> ELSE <<>>)
                 \o (IF darkIconUri # <<>> /\ darkIconUri # lightIconUri
                     THEN <<darkIconUri>> ELSE <<>>)
    IN [handle |-> handle,
        sourceUri |-> r.resourceUri,
        icons |-> icons,
        tooltip |-> IF IsAbsent(r.decorations) THEN "" ELSE OrEmpty(r.decorations.tooltip),
        strikeThrough |-> IF IsAbsent(r.decorations) THEN Undef
                          ELSE ToBool(r.decorations.strikeThrough),
        faded |-> IF IsAbsent(r.decorations) THEN Undef ELSE ToBool(r.decorations.faded),
        contextValue |-> OrEmpty(r.contextValue),
        command |-> IF ~IsAbsent(r.command) /\ IsBuiltinCommand(r.command.command)
                    THEN toSafeCommand(r.command) ELSE Absent]

\* number of items the diffs before the k-th insert
RECURSIVE InsertedBefore(_, _)
InsertedBefore(diffs, k) ==
    IF k <= 1 THEN 0 ELSE InsertedBefore(diffs, k - 1) + Len(diffs[k - 1].toInsert)

\* (variant: every inserted item of a flush gets the handle the pool stood at)
NextResourceHandleStuck(pool, diffs, k, j) == pool

\* the handle drawn from the pool for the j-th inserted item of the k-th diff
NextResourceHandle(pool, diffs, k, j) == pool + InsertedBefore(diffs, k) + (j - 1)

\* the splices with a handle attached to every inserted item (scm.ts 367-408)
HandledSplices(pool, diffs) ==
    [k \in 1..Len(diffs) |->
        [start |-> diffs[k].start,
         deleteCount |-> diffs[k].deleteCount,
         toInsert |-> [j \in 1..Len(diffs[k].toInsert) |->
                          [handle |-> NextResourceHandle(pool, diffs, k, j),
                           state |-> diffs[k].toInsert[j]]]]]

\* every inserted item of the splices, in order
RECURSIVE InsertedItems(_)
InsertedItems(splices) ==
    IF Len(splices) = 0 THEN <<>>
    ELSE splices[1].toInsert \o InsertedItems(Tail(splices))

\* the three handle tables after the inserted items were entered (scm.ts 370, 379-387)
RECURSIVE EnterItems(_, _)
EnterItems(g, items) ==
    IF Len(items) = 0 THEN g
    ELSE LET h == items[1].handle
             r == items[1].state
             g1 == [g EXCEPT !.resourceStatesMap = MapSet(@, h, r)]
             g2 == IF IsAbsent(r.command) THEN g1
                   ELSE IF IsBuiltinCommand(r.command.command)
                   THEN [g1 EXCEPT !.resourceStatesDisposablesMap = MapSet(@, h, "live")]
                   ELSE [g1 EXCEPT !.resourceStatesCommandsMap = MapSet(@, h, r.command)]
         IN EnterItems(g2, Tail(items))

\* (variant: the handles a splice removed stay in the tables)
RetireHandlesKept(g, handlesToDelete) == g

\* retire the handles a splice removed (scm.ts 423-428)
RetireHandles(g, handlesToDelete) ==
    [g EXCEPT
        !.resourceStatesMap = MapDeleteAll(@, handlesToDelete),
        !.resourceStatesCommandsMap = MapDeleteAll(@, handlesToDelete),
        !.disposedDisposables =
            @ \cup (SeqRange(handlesToDelete) \cap DOMAIN g.resourceStatesDisposablesMap),
        !.resourceStatesDisposablesMap = MapDeleteAll(@, handlesToDelete)]

\* splices.reverse() applied to the handle list, last splice first (scm.ts 417-429)
RECURSIVE ApplyReverseSplices(_, _, _)
ApplyReverseSplices(g, splices, k) ==
    IF k = 0 THEN g
    ELSE LET sp == splices[k]
             handles == [j \in 1..Len(sp.toInsert) |-> sp.toInsert[j].handle]
             deleted == ArraySpliceDeleted(g.handlesSnapshot, sp.start, sp.deleteCount)
             g1 == [g EXCEPT !.handlesSnapshot =
                        ArraySplice(@, sp.start, sp.deleteCount, handles)]
         IN ApplyReverseSplices(RetireHandles(g1, deleted), splices, k - 1)

\* (variant: the raw splices delete nothing)
RawResourceSplicesNoDelete(splices) ==
    [k \in 1..Len(splices) |->
        [start |-> splices[k].start,
         deleteCount |-> 0,
         rawResources |-> [j \in 1..Len(splices[k].toInsert) |->
                              RawResource(splices[k].toInsert[j].handle,
                                          splices[k].toInsert[j].state)]]]

\* the ScmRawResourceSplice objects of the splices (scm.ts 410-415)
RawResourceSplices(splices) ==
    [k \in 1..Len(splices) |->
        [start |-> splices[k].start,
         deleteCount |-> splices[k].deleteCount,
         rawResources |-> [j \in 1..Len(splices[k].toInsert) |->
                              RawResource(splices[k].toInsert[j].handle,
                                          splices[k].toInsert[j].state)]]]

\* the group with the inserted items entered in the handle tables
EnteredGroup(g, items) ==
    EnterItems([g EXCEPT !.resourceHandlePool = @ + Len(items)], items)

\* (variant: the new snapshot is not stored in _resourceSnapshot)
StoreSnapshotStale(g, snapshot, splices) ==
    [group |-> ApplyReverseSplices(EnteredGroup(g, InsertedItems(splices)),
                                   splices, Len(splices)),
     splices |-> RawResourceSplices(splices)]

\* the second half of _takeResourceStateSnapshot (scm.ts 410-432): the raw
\* splices are built, the handle list is spliced, the snapshot is stored
StoreSnapshot(g, snapshot, splices) ==
    [group |-> [ApplyReverseSplices(EnteredGroup(g, InsertedItems(splices)),
                                    splices, Len(splices))
                   EXCEPT !.resourceSnapshot = snapshot],
     splices |-> RawResourceSplices(splices)]

\* the first half (scm.ts 365-408): the sorted snapshot is diffed against the
\* previous one and every inserted item draws a handle
DiffSnapshot(g, snapshot) ==
    StoreSnapshot(g, snapshot,
                  HandledSplices(g.resourceHandlePool,
                                 sortedDiff(g.resourceSnapshot, snapshot)))

\* _takeResourceStateSnapshot: the group afterwards and the splices returned
takeResourceStateSnapshot(g) == DiffSnapshot(g, SortResourceStates(g.resourceStates))

(***************************************************************************)
(* Wire values.  A JavaScript array that the receiver destructures is      *)
(* [array |-> items]; an object literal is a record of its properties.     *)
(***************************************************************************)
JsArray(items) == [array |-> items]

IsArray(v) == "array" \in DOMAIN v

(***************************************************************************)
(* State.                                                                  *)
(***************************************************************************)
VARIABLES
    scmExtHandlePool,        \* ScmExtImpl._handlePool
    sourceControlHandlePool, \* ExtHostSourceControl._handlePool
    groupHandlePool,         \* ExtHostSourceControlResourceGroup._handlePool
    sourceControls,          \* ScmExtImpl._sourceControls: key -> handle of the object
    scObjects,               \* the ExtHostSourceControl objects, by their handle
    groups,                  \* the ExtHostSourceControlResourceGroup objects, by handle
    selectedSourceControlHandle, \* ScmExtImpl._selectedSourceControlHandle
    toMirror,                \* Provider-to-Mirror calls sent and not yet handled
    repositories,            \* ScmMainImpl._repositories: handle -> mirror provider
    mirrorOutcome,           \* how the Mirror Side's last handler ended
    selectionLog,            \* onDidChangeSelection events of the last handler
    issuedHandles,           \* every handle ever drawn, per pool, in order (and whether a
                             \* source control was created after another was disposed)
    tickFlushed,             \* source controls that sent spliceResourceStates in this tick
    lastTake,                \* the last direct call of _takeResourceStateSnapshot
    resourcesChanged,        \* _onDidChangeResources events fired by the Mirror Side's
                             \* last handler
    tickRegistered,          \* source controls that sent registerGroups in this tick
    announcedGroups,         \* group handles carried by a registerGroups call sent so far
    providerCall,            \* the last Mirror-to-Provider call and how it ended
    lastFlush,               \* how the last eventuallyUpdateResourceStates ended:
                             \* "sent", "empty" (nothing to send) or "none"
    toProvider,              \* $onInputBoxValueChange calls in flight to the Provider
                             \* Side, oldest first
    quickOpen                \* the QuickFileOpenService: its dialog, its cancellation
                             \* token sources, the searches pending and what the
                             \* acceptors were passed

vars == <<scmExtHandlePool, sourceControlHandlePool, groupHandlePool, sourceControls,
          scObjects, groups, selectedSourceControlHandle, toMirror, repositories,
          mirrorOutcome, selectionLog, issuedHandles, tickFlushed, lastTake,
          resourcesChanged, tickRegistered, announcedGroups, providerCall, lastFlush,
          toProvider, quickOpen>>

providerVars == <<scmExtHandlePool, sourceControlHandlePool, groupHandlePool,
                  sourceControls, scObjects, groups, issuedHandles>>

\* the variables of the browser side
mirrorVars == <<repositories, mirrorOutcome, resourcesChanged, toProvider, quickOpen>>

\* what the model records of the calls sent and received on the Provider Side
historyVars == <<tickRegistered, announcedGroups, providerCall, lastFlush>>

\* the ids source controls and groups are created under, each used once
SourceControlIds == {"git", "hg"}

GroupIds == {"index", "workingTree"}

\* the arrays a plugin assigns to resourceStates
ProtocolResourceStates == { Plain("a.txt"), Plain("b.txt") }

DeclaredArrays == SeqsUpTo(ProtocolResourceStates, MaxLen)

\* the arrays assigned to a group whose snapshots are taken by direct calls
DiffResourceStates ==
    { Plain("a.txt"), Plain("b.txt"),
      Decorated("b.txt", Undef, Undef), Decorated("b.txt", "false", "false") }

DiffArrays == SeqsUpTo(DiffResourceStates, MaxLen)

\* the arrays assigned where the handle pools are under study
FewDeclaredArrays == { <<>>, <<Plain("a.txt")>> }

\* no direct call of _takeResourceStateSnapshot since resourceStates was assigned
NoTake == [pending |-> TRUE]

\* (variant: the pool is read and not advanced)
DrawHandleReused(pool) == [handle |-> pool, pool |-> pool]

\* no Mirror-to-Provider call has been handled
NoCall == [method |-> "none"]

\* n = pool++
DrawHandle(pool) == [handle |-> pool, pool |-> pool + 1]

\* a QuickFileOpenService as constructed: the dialog is closed and cancelIndicator
\* is a first CancellationTokenSource; the sources are numbered in the order of
\* their creation and `cancelled` tells of each whether cancel() was called on it
NewQuickOpen ==
    [isOpen |-> FALSE, hideIgnoredFiles |-> TRUE, currentLookFor |-> "",
     cancelled |-> <<FALSE>>, pending |-> {}, dropped |-> {}, accepted |-> <<>>]

Init ==
    /\ scmExtHandlePool = 0
    /\ sourceControlHandlePool = 0
    /\ groupHandlePool = 0
    /\ sourceControls = EmptyMap
    /\ scObjects = EmptyMap
    /\ groups = EmptyMap
    /\ selectedSourceControlHandle = NoHandle
    /\ toMirror = <<>>
    /\ repositories = EmptyMap
    /\ mirrorOutcome = "none"
    /\ selectionLog = <<>>
    /\ issuedHandles = [sourceControl |-> <<>>, group |-> <<>>, resource |-> EmptyMap,
                        afterDisposal |-> FALSE]
    /\ tickFlushed = {}
    /\ lastTake = NoTake
    /\ resourcesChanged = 0
    /\ tickRegistered = {}
    /\ announcedGroups = {}
    /\ providerCall = NoCall
    /\ lastFlush = "none"
    /\ toProvider = <<>>
    /\ quickOpen = NewQuickOpen

(***************************************************************************)
(* Provider Side: ScmExtImpl, ExtHostSourceControl.                        *)
(***************************************************************************)
\* an ExtHostSourceControl object as its constructor leaves it
NewSourceControl(handle, id) ==
    [handle |-> handle, id |-> id, selected |-> FALSE, groups |-> <<>>,
     updatedResourceGroups |-> {}, disposed |-> FALSE,
     inputBoxValue |-> "", inputBoxPlaceholder |-> "", validateInput |-> Undef,
     count |-> <<>>, commitTemplate |-> Undef, quickDiffProvider |-> FALSE,
     provideOriginalResource |-> Undef,
     acceptInputCommand |-> Undef, statusBarCommands |-> Absent,
     acceptInputDisposables |-> {}, statusBarDisposables |-> {},
     safeCommandPool |-> 0, safeCommands |-> {}]

\* (variant: n = ++pool)
DrawHandlePreIncremented(pool) == [handle |-> pool + 1, pool |-> pool + 1]

\* the field initializer of ExtHostSourceControl:
\* handle = ExtHostSourceControl._handlePool++
SourceControlHandle(pool) == DrawHandle(pool)

\* ScmExtImpl.createSourceControl with the ExtHostSourceControl constructor
CreateSourceControl(ids) ==
    \E id \in ids :
        /\ \A h \in DOMAIN scObjects : scObjects[h].id # id
        /\ Len(toMirror) < MaxInFlight
        /\ LET drawnKey == DrawHandle(scmExtHandlePool)
               drawn == SourceControlHandle(sourceControlHandlePool)
               key == drawnKey.handle
               handle == drawn.handle
           IN /\ scmExtHandlePool' = drawnKey.pool
              /\ sourceControlHandlePool' = drawn.pool
              /\ scObjects' = MapSet(scObjects, handle, NewSourceControl(handle, id))
              /\ sourceControls' = MapSet(sourceControls, key, handle)
              /\ toMirror' = Append(toMirror,
                     [method |-> "registerSourceControl", handle |-> handle, id |-> id])
              /\ issuedHandles' = [issuedHandles EXCEPT
                     !.sourceControl = Append(@, handle),
                     !.afterDisposal = @ \/ \E h \in DOMAIN scObjects : scObjects[h].disposed]
        /\ UNCHANGED <<groupHandlePool, groups, selectedSourceControlHandle,
                       mirrorVars, selectionLog, tickFlushed, lastTake, historyVars>>

\* the features getter of a group
GroupFeatures(group) == [hideWhenEmpty |-> group.hideWhenEmpty]

\* (variant: the call announces no group)
RegisterGroupsCallNoGroups(sc, group, splices) ==
    [method |-> "registerGroups", handle |-> sc, groups |-> <<>>, splices |-> <<>>]

\* the $registerGroups call eventuallyAddResourceGroups sends for one created group
RegisterGroupsCall(sc, group, splices) ==
    [method |-> "registerGroups", handle |-> sc,
     groups |-> <<JsArray(<<group.handle, group.id, group.label, GroupFeatures(group)>>)>>,
     splices |-> IF Len(splices) > 0
                 THEN <<[handle |-> group.handle, splices |-> splices]>>
                 ELSE <<>>]

\* the group handles a registerGroups call announces
AnnouncedBy(call) == { call.groups[i].array[1] : i \in 1..Len(call.groups) }

\* ExtHostSourceControl.createResourceGroup, with the eventuallyAddResourceGroups
\* it calls: the new group is the only entry of createdResourceGroups
CreateResourceGroup(ids) ==
    \E sc \in DOMAIN scObjects, id \in ids :
        /\ \A g \in DOMAIN groups : groups[g].id # id
        /\ Len(toMirror) < MaxInFlight
        /\ \E drawn \in {DrawHandle(groupHandlePool)} :
           \E taken \in {takeResourceStateSnapshot(
                             [NewResourceGroup(drawn.handle, sc, id)
                                 EXCEPT !.listening = TRUE])} :
              /\ groupHandlePool' = drawn.pool
              /\ groups' = MapSet(groups, drawn.handle, taken.group)
              /\ scObjects' = [scObjects EXCEPT ![sc].groups = Append(@, drawn.handle)]
              /\ \E call \in {RegisterGroupsCall(sc, taken.group, taken.splices)} :
                    /\ toMirror' = Append(toMirror, call)
                    /\ announcedGroups' = announcedGroups \cup AnnouncedBy(call)
              /\ issuedHandles' = [issuedHandles EXCEPT
                                      !.group = Append(@, drawn.handle),
                                      !.resource = MapSet(@, drawn.handle, <<>>)]
        /\ tickRegistered' = tickRegistered \cup {sc}
        /\ UNCHANGED <<scmExtHandlePool, sourceControlHandlePool, sourceControls,
                       selectedSourceControlHandle, mirrorVars, selectionLog,
                       tickFlushed, lastTake, providerCall, lastFlush>>

\* the handles of the raw resources a splice list inserts, in order
RECURSIVE InsertedHandles(_)
InsertedHandles(rawSplices) ==
    IF Len(rawSplices) = 0 THEN <<>>
    ELSE [j \in 1..Len(rawSplices[1].rawResources) |-> rawSplices[1].rawResources[j].handle]
         \o InsertedHandles(Tail(rawSplices))

\* (variant: the batch is sent whatever it holds)
FlushedCallsAlways(sc, g, splices) ==
    <<[method |-> "spliceResourceStates", handle |-> sc,
       splices |-> <<[handle |-> g, splices |-> splices]>>]>>

\* the calls eventuallyUpdateResourceStates sends when g is the one updated group
\* and its snapshot gave these splices: a group without splices is left out of
\* the batch and an empty batch is not sent
FlushedCalls(sc, g, splices) ==
    IF Len(splices) = 0 THEN <<>>
    ELSE <<[method |-> "spliceResourceStates", handle |-> sc,
            splices |-> <<[handle |-> g, splices |-> splices]>>]>>

\* the resourceStates setter, with the update listener of eventuallyAddResourceGroups
\* and the eventuallyUpdateResourceStates it calls: the group is the only entry of
\* updatedResourceGroups
SetResourceStates(declarable) ==
    \E g \in DOMAIN groups, resources \in declarable :
        /\ Len(toMirror) < MaxInFlight
        /\ \E sc \in {groups[g].sourceControlHandle},
              assigned \in {[groups[g] EXCEPT !.resourceStates = resources]} :
              IF groups[g].listening
              THEN \E taken \in {takeResourceStateSnapshot(assigned)} :
                   /\ taken.group.resourceHandlePool <= MaxResourceHandles
                   /\ groups' = [groups EXCEPT ![g] = taken.group]
                   /\ issuedHandles' = [issuedHandles EXCEPT
                          !.resource[g] = @ \o InsertedHandles(taken.splices)]
                   /\ \E calls \in {FlushedCalls(sc, g, taken.splices)} :
                         /\ toMirror' = toMirror \o calls
                         /\ tickFlushed' = IF Len(calls) > 0 THEN tickFlushed \cup {sc}
                                           ELSE tickFlushed
                         /\ lastFlush' = IF Len(calls) > 0 THEN "sent" ELSE "empty"
              ELSE /\ groups' = [groups EXCEPT ![g] = assigned]
                   /\ UNCHANGED <<toMirror, tickFlushed, issuedHandles, lastFlush>>
        /\ lastTake' = NoTake
        /\ UNCHANGED <<scmExtHandlePool, sourceControlHandlePool, groupHandlePool,
                       sourceControls, scObjects, selectedSourceControlHandle,
                       mirrorVars, selectionLog, tickRegistered, announcedGroups,
                       providerCall>>

\* a direct call of group._takeResourceStateSnapshot()
TakeSnapshot(maxHandles) ==
    \E g \in DOMAIN groups :
        \E taken \in {takeResourceStateSnapshot(groups[g])} :
           /\ taken.group.resourceHandlePool <= maxHandles
           /\ groups' = [groups EXCEPT ![g] = taken.group]
           /\ issuedHandles' = [issuedHandles EXCEPT
                  !.resource[g] = @ \o InsertedHandles(taken.splices)]
           /\ lastTake' = [pending |-> FALSE, splices |-> taken.splices,
                           repeated |-> ~lastTake.pending]
           /\ UNCHANGED <<scmExtHandlePool, sourceControlHandlePool, groupHandlePool,
                          sourceControls, scObjects, selectedSourceControlHandle,
                          toMirror, mirrorVars, selectionLog, tickFlushed,
                          historyVars>>

\* the label setter of a group
SetGroupLabel(labels) ==
    \E g \in DOMAIN groups, label \in labels :
        /\ Len(toMirror) < MaxInFlight
        /\ groups' = [groups EXCEPT ![g].label = label]
        /\ toMirror' = Append(toMirror,
               [method |-> "updateGroupLabel", handle |-> groups[g].sourceControlHandle,
                group |-> g, label |-> label])
        /\ UNCHANGED <<scmExtHandlePool, sourceControlHandlePool, groupHandlePool,
                       sourceControls, scObjects, selectedSourceControlHandle,
                       mirrorVars, selectionLog, issuedHandles, tickFlushed, lastTake,
                       historyVars>>

\* the hideWhenEmpty setter of a group
SetHideWhenEmpty(values) ==
    \E g \in DOMAIN groups, hideWhenEmpty \in values :
        /\ Len(toMirror) < MaxInFlight
        /\ \E updated \in {[groups[g] EXCEPT !.hideWhenEmpty = hideWhenEmpty]} :
              /\ groups' = [groups EXCEPT ![g] = updated]
              /\ toMirror' = Append(toMirror,
                     [method |-> "updateGroup", handle |-> updated.sourceControlHandle,
                      group |-> g, features |-> GroupFeatures(updated)])
        /\ UNCHANGED <<scmExtHandlePool, sourceControlHandlePool, groupHandlePool,
                       sourceControls, scObjects, selectedSourceControlHandle,
                       mirrorVars, selectionLog, issuedHandles, tickFlushed, lastTake,
                       historyVars>>

\* (variant: the update listener stays attached)
DisposedGroupListening(group) == [group EXCEPT !.disposed = TRUE]

\* what ExtHostSourceControlResourceGroup.dispose does to the objects: the group is
\* marked and the onDidDispose listener of eventuallyAddResourceGroups runs
DisposedGroup(group) == [group EXCEPT !.disposed = TRUE, !.listening = FALSE]

RemoveFromSeq(s, x) == SelectSeq(s, LAMBDA y : y # x)

GroupDisposedIn(scObject, g) ==
    [scObject EXCEPT !.groups = RemoveFromSeq(@, g),
                     !.updatedResourceGroups = @ \ {g}]

UnregisterGroupCall(sc, g) == [method |-> "unregisterGroup", handle |-> sc, group |-> g]

\* ExtHostSourceControlResourceGroup.dispose
DisposeGroup ==
    \E g \in DOMAIN groups :
        /\ Len(toMirror) < MaxInFlight
        /\ LET sc == groups[g].sourceControlHandle
           IN /\ groups' = [groups EXCEPT ![g] = DisposedGroup(@)]
              /\ scObjects' = [scObjects EXCEPT ![sc] = GroupDisposedIn(@, g)]
              /\ toMirror' = Append(toMirror, UnregisterGroupCall(sc, g))
        /\ UNCHANGED <<scmExtHandlePool, sourceControlHandlePool, groupHandlePool,
                       sourceControls, selectedSourceControlHandle, mirrorVars,
                       selectionLog, issuedHandles, tickFlushed, lastTake, historyVars>>

\* ExtHostSourceControl.dispose: every group of _groups is disposed, in the order
\* of the map, then the source control is unregistered
DisposeSourceControl ==
    \E sc \in DOMAIN scObjects :
        /\ Len(toMirror) < MaxInFlight
        /\ LET owned == scObjects[sc].groups
           IN /\ groups' = [g \in DOMAIN groups |->
                               IF g \in SeqRange(owned) THEN DisposedGroup(groups[g])
                               ELSE groups[g]]
              /\ scObjects' = [scObjects EXCEPT ![sc] =
                                  [@ EXCEPT !.groups = <<>>,
                                            !.updatedResourceGroups = {},
                                            !.safeCommands =
                                                @ \ (scObjects[sc].acceptInputDisposables
                                                       \cup scObjects[sc].statusBarDisposables),
                                            !.disposed = TRUE]]
              /\ toMirror' = toMirror
                     \o [i \in 1..Len(owned) |-> UnregisterGroupCall(sc, owned[i])]
                     \o <<[method |-> "unregisterSourceControl", handle |-> sc]>>
        /\ UNCHANGED <<scmExtHandlePool, sourceControlHandlePool, groupHandlePool,
                       sourceControls, selectedSourceControlHandle, mirrorVars,
                       selectionLog, issuedHandles, tickFlushed, lastTake, historyVars>>

\* the scheduling tick ends: the synchronous run of the plugin is over
EndTick ==
    /\ tickFlushed # {} \/ tickRegistered # {}
    /\ tickFlushed' = {}
    /\ tickRegistered' = {}
    /\ UNCHANGED <<providerVars, selectedSourceControlHandle, toMirror, mirrorVars,
                   selectionLog, lastTake, announcedGroups, providerCall, lastFlush>>

(***************************************************************************)
(* Mirror Side: ScmMainImpl, PluginScmProvider, PluginScmResourceGroup.    *)
(***************************************************************************)
\* a PluginScmProvider as $registerSourceControl builds it
NewMirrorProvider(handle, id) ==
    [handle |-> handle, id |-> id, groups |-> <<>>, groupsByHandle |-> EmptyMap,
     features |-> EmptyMap, inputValue |-> "", inputPlaceholder |-> ""]

\* a PluginScmResourceGroup as PluginScmProvider.$registerGroups builds it
NewMirrorGroup(handle, id, label, features) ==
    [handle |-> handle, id |-> id, label |-> label, features |-> features,
     resources |-> <<>>]

\* the PluginScmResource built from a raw resource tuple (scm-main.ts 230-251)
MirrorResource(groupHandle, raw) ==
    LET icons == raw[3]
        icon == IF Len(icons) >= 1 THEN icons[1] ELSE <<>>
        iconDark == IF Len(icons) >= 2 /\ icons[2] # <<>> THEN icons[2] ELSE icon
    IN [handle |-> raw[1],
        groupHandle |-> groupHandle,
        sourceUri |-> raw[2],
        decorations |-> [icon |-> icon, iconDark |-> iconDark, tooltip |-> raw[4],
                         strikeThrough |-> raw[5], faded |-> raw[6]],
        contextValue |-> IF raw[7] = "" THEN Undef ELSE raw[7],
        command |-> raw[8]]

\* (variant: the items to insert are not passed on to Array.prototype.splice)
MirrorGroupSpliceNoInsert(group, start, deleteCount, toInsert) ==
    [group EXCEPT !.resources = ArraySplice(@, start, deleteCount, <<>>)]

\* PluginScmResourceGroup.splice
MirrorGroupSplice(group, start, deleteCount, toInsert) ==
    [group EXCEPT !.resources = ArraySplice(@, start, deleteCount, toInsert)]

\* the inner loop of $spliceGroupResourceStates over the reversed splices of one
\* group, from the i-th; destructuring a value that is no array throws a TypeError
RECURSIVE ApplyGroupSlices(_, _, _)
ApplyGroupSlices(group, groupSlices, i) ==
    IF i > Len(groupSlices) THEN [group |-> group, threw |-> FALSE]
    ELSE LET slice == groupSlices[i] IN
         IF ~IsArray(slice) THEN [group |-> group, threw |-> TRUE]
         ELSE LET start == slice.array[1]
                  deleteCount == slice.array[2]
                  rawResources == slice.array[3]
              IN IF \E j \in 1..Len(rawResources) : ~IsArray(rawResources[j])
                 THEN [group |-> group, threw |-> TRUE]
                 ELSE ApplyGroupSlices(
                          MirrorGroupSplice(group, start, deleteCount,
                              [j \in 1..Len(rawResources) |->
                                  MirrorResource(group.handle, rawResources[j].array)]),
                          groupSlices, i + 1)

\* PluginScmProvider.$spliceGroupResourceStates from the i-th entry of the batch:
\* the provider afterwards, whether the handler threw, and the number of
\* _onDidChangeResources events it fired (one, at its end)
RECURSIVE spliceGroupResourceStates(_, _, _)
spliceGroupResourceStates(provider, splices, i) ==
    IF i > Len(splices) THEN [provider |-> provider, threw |-> FALSE, fired |-> 1]
    ELSE LET entry == splices[i] IN
         IF ~IsArray(entry) THEN [provider |-> provider, threw |-> TRUE, fired |-> 0]
         ELSE LET groupHandle == entry.array[1]
                  groupSlices == entry.array[2]
              IN IF groupHandle \notin DOMAIN provider.groupsByHandle
                 THEN spliceGroupResourceStates(provider, splices, i + 1)
                 ELSE LET applied == ApplyGroupSlices(provider.groupsByHandle[groupHandle],
                                                      Reverse(groupSlices), 1)
                          after == [provider EXCEPT
                                       !.groupsByHandle[groupHandle] = applied.group]
                      IN IF applied.threw
                         THEN [provider |-> after, threw |-> TRUE, fired |-> 0]
                         ELSE spliceGroupResourceStates(after, splices, i + 1)

\* PluginScmProvider.$registerGroups
RECURSIVE registerGroups(_, _)
registerGroups(provider, rawGroups) ==
    IF Len(rawGroups) = 0 THEN provider
    ELSE LET t == rawGroups[1].array
             group == NewMirrorGroup(t[1], t[2], t[3], t[4])
         IN registerGroups(
                [provider EXCEPT !.groupsByHandle = MapSet(@, t[1], group),
                                 !.groups = Append(@, t[1])],
                Tail(rawGroups))

\* this.groups.splice(this.groups.indexOf(group), 1) on the handles of the groups,
\* for the group _groupsByHandle holds: of the groups registered under one handle
\* it is the one registered last (an index of -1 would remove the last element)
SpliceOutGroup(s, handle) ==
    IF \A i \in 1..Len(s) : s[i] # handle THEN SubSeq(s, 1, Len(s) - 1)
    ELSE LET index == CHOOSE i \in 1..Len(s) :
                          s[i] = handle /\ \A j \in (i + 1)..Len(s) : s[j] # handle
         IN SubSeq(s, 1, index - 1) \o SubSeq(s, index + 1, Len(s))

\* PluginScmProvider.$unregisterGroup
unregisterGroup(provider, handle) ==
    IF handle \notin DOMAIN provider.groupsByHandle THEN provider
    ELSE [provider EXCEPT !.groupsByHandle = MapDelete(@, handle),
                          !.groups = SpliceOutGroup(@, handle)]

\* { ...a, ...b } on objects held as maps
SpreadMerge(a, b) ==
    [k \in (DOMAIN a) \cup (DOMAIN b) |-> IF k \in DOMAIN b THEN b[k] ELSE a[k]]

\* PluginScmProvider.$updateGroup with PluginScmResourceGroup.$updateGroup
updateGroup(provider, handle, features) ==
    IF handle \notin DOMAIN provider.groupsByHandle THEN provider
    ELSE [provider EXCEPT !.groupsByHandle[handle].features = SpreadMerge(@, features)]

\* PluginScmProvider.$updateGroupLabel with PluginScmResourceGroup.$updateGroupLabel
updateGroupLabel(provider, handle, label) ==
    IF handle \notin DOMAIN provider.groupsByHandle THEN provider
    ELSE [provider EXCEPT !.groupsByHandle[handle].label = label]

\* (variant: the repository stays in _repositories)
unregisterSourceControlKept(repos, handle) == repos

\* ScmMainImpl.$unregisterSourceControl for a registered handle: the repository is
\* disposed and deleted from _repositories
unregisterSourceControl(repos, handle) == MapDelete(repos, handle)

\* a handler of ScmMainImpl that ended without throwing
Handled(repos) == [repos |-> repos, threw |-> FALSE, changed |-> 0]

\* $registerGroups and $spliceResourceStates end as $spliceGroupResourceStates ends
HandledSplice(repos, handle, spliced) ==
    [repos |-> [repos EXCEPT ![handle] = spliced.provider],
     threw |-> spliced.threw, changed |-> spliced.fired]

\* the handler of ScmMainImpl that a call runs: the repositories afterwards,
\* whether the handler threw, and the _onDidChangeResources events it fired
MirrorHandle(repos, call) ==
    IF call.method = "registerSourceControl"
    THEN Handled(MapSet(repos, call.handle, NewMirrorProvider(call.handle, call.id)))
    ELSE IF call.handle \notin DOMAIN repos THEN Handled(repos)
    ELSE IF call.method = "unregisterSourceControl"
    THEN Handled(unregisterSourceControl(repos, call.handle))
    ELSE IF call.method = "registerGroups"
    THEN HandledSplice(repos, call.handle,
             spliceGroupResourceStates(registerGroups(repos[call.handle], call.groups),
                                       call.splices, 1))
    ELSE IF call.method = "spliceResourceStates"
    THEN HandledSplice(repos, call.handle,
             spliceGroupResourceStates(repos[call.handle], call.splices, 1))
    ELSE IF call.method = "unregisterGroup"
    THEN Handled([repos EXCEPT ![call.handle] = unregisterGroup(@, call.group)])
    ELSE IF call.method = "updateSourceControl"
    THEN Handled([repos EXCEPT ![call.handle].features = SpreadMerge(@, call.features)])
    ELSE IF call.method = "updateGroup"
    THEN Handled([repos EXCEPT ![call.handle] = updateGroup(@, call.group, call.features)])
    ELSE IF call.method = "updateGroupLabel"
    THEN Handled([repos EXCEPT ![call.handle] = updateGroupLabel(@, call.group, call.label)])
    ELSE IF call.method = "setInputBoxValue"
    THEN Handled([repos EXCEPT ![call.handle].inputValue = call.value])
    ELSE IF call.method = "setInputBoxPlaceholder"
    THEN Handled([repos EXCEPT ![call.handle].inputPlaceholder = call.placeholder])
    ELSE Handled(repos)

\* ScmInput, the setter of value: onDidChange fires when the value changes
ScmInputFires(old, new) == old # new

\* (variant: the listener of the input sends nothing)
inputOnDidChangeSilent(handle, value) == <<>>

\* the listener $registerSourceControl subscribes to repository.input.onDidChange:
\* the calls it sends to the Provider Side
inputOnDidChange(handle, value) ==
    <<[method |-> "onInputBoxValueChange", handle |-> handle, value |-> value]>>

\* the calls to the Provider Side the handler of a call sends: $setInputBoxValue
\* assigns repository.input.value
SentToProvider(repos, call) ==
    IF /\ call.method = "setInputBoxValue"
       /\ call.handle \in DOMAIN repos
       /\ ScmInputFires(repos[call.handle].inputValue, call.value)
    THEN inputOnDidChange(call.handle, call.value)
    ELSE <<>>

\* the Mirror Side handles the oldest call in flight
MirrorDeliver ==
    /\ Len(toMirror) > 0
    /\ Len(toProvider) + Len(SentToProvider(repositories, Head(toMirror))) <= MaxInFlight
    /\ \E handled \in {MirrorHandle(repositories, Head(toMirror))} :
          /\ repositories' = handled.repos
          /\ mirrorOutcome' = IF handled.threw THEN "TypeError" ELSE "ok"
          /\ resourcesChanged' = handled.changed
    /\ toProvider' = toProvider \o SentToProvider(repositories, Head(toMirror))
    /\ UNCHANGED quickOpen
    /\ toMirror' = Tail(toMirror)
    /\ UNCHANGED <<providerVars, selectedSourceControlHandle, selectionLog,
                   tickFlushed, lastTake, historyVars>>

\* ScmMainImpl.dispose: every repository is disposed and _repositories is cleared
MainDispose ==
    /\ repositories' = EmptyMap
    /\ UNCHANGED <<providerVars, selectedSourceControlHandle, toMirror,
                   mirrorOutcome, resourcesChanged, toProvider, quickOpen,
                   selectionLog, tickFlushed, lastTake, historyVars>>

\* the calls of ScmMain that name source control handle h and group handle g, the
\* batch of splices in the shape eventuallyUpdateResourceStates sends it
CallsNaming(h, g) ==
    { [method |-> "updateSourceControl", handle |-> h, features |-> [count |-> 1]],
      [method |-> "unregisterSourceControl", handle |-> h],
      RegisterGroupsCall(h, NewResourceGroup(g, h, "index"), <<>>),
      [method |-> "updateGroup", handle |-> h, group |-> g,
       features |-> [hideWhenEmpty |-> "true"]],
      [method |-> "updateGroupLabel", handle |-> h, group |-> g, label |-> "Staged"],
      FlushedCalls(h, g, RawResourceSplices(
          <<[start |-> 0, deleteCount |-> 0,
             toInsert |-> <<[handle |-> 0, state |-> Plain("a.txt")]>>]>>))[1],
      UnregisterGroupCall(h, g),
      [method |-> "setInputBoxValue", handle |-> h, value |-> "message"],
      [method |-> "setInputBoxPlaceholder", handle |-> h, placeholder |-> "Message"] }

\* the call names a source control that is not registered, or a group its source
\* control does not know: the lookups in _repositories and in _groupsByHandle
\* find nothing
Stale(call, repos) ==
    /\ call.method # "registerSourceControl"
    /\ \/ call.handle \notin DOMAIN repos
       \/ /\ call.method = "spliceResourceStates"
          /\ \A k \in 1..Len(call.splices) :
                 call.splices[k].handle \notin DOMAIN repos[call.handle].groupsByHandle
       \/ /\ call.method \in {"updateGroup", "updateGroupLabel", "unregisterGroup"}
          /\ call.group \notin DOMAIN repos[call.handle].groupsByHandle

\* a call of ScmMain arrives that names a source control handle or a group handle
\* the Provider Side has not issued
StaleCall(handles, groupHandles) ==
    \E h \in handles, g \in groupHandles :
        \E call \in CallsNaming(h, g) :
            /\ Len(toMirror) < MaxInFlight
            /\ \/ h \notin DOMAIN scObjects
               \/ /\ g \notin DOMAIN groups
                  /\ call.method \in {"updateGroup", "updateGroupLabel",
                                       "spliceResourceStates", "unregisterGroup"}
            /\ toMirror' = Append(toMirror, call)
            /\ UNCHANGED <<providerVars, selectedSourceControlHandle, mirrorVars,
                           selectionLog, tickFlushed, lastTake, historyVars>>

(***************************************************************************)
(* Mirror-to-Provider calls: the handlers of ScmExtImpl.                   *)
(***************************************************************************)
\* Promise.resolve(undefined)
ResolvedUndefined == [promise |-> "resolved", undefined |-> TRUE]

\* a promise resolved with a value
ResolvedValue(value) == [promise |-> "resolved", undefined |-> FALSE, value |-> value]

\* new Promise(() => ...): the executor runs, the promise is never settled
Pending == [promise |-> "pending", undefined |-> FALSE]

\* a promise rejected with the error its executor or an awaited call threw
Rejected == [promise |-> "rejected", undefined |-> FALSE]

\* the plugin's functions set as inputBox.validateInput, by what they return:
\* "reject" returns a message for the input, "accept" returns undefined, "throws"
\* throws when it is called, "rejects" returns a promise that is rejected
InputValidators == {"reject"}

AllInputValidators == {"accept", "reject", "throws", "rejects"}

\* the validateInput setter of the input box
SetValidateInput(fns) ==
    \E sc \in DOMAIN scObjects, fn \in fns :
        /\ scObjects[sc].validateInput # fn
        /\ scObjects' = [scObjects EXCEPT ![sc].validateInput = fn]
        /\ UNCHANGED <<scmExtHandlePool, sourceControlHandlePool, groupHandlePool,
                       sourceControls, groups, issuedHandles,
                       selectedSourceControlHandle, toMirror, mirrorVars,
                       selectionLog, tickFlushed, lastTake, historyVars>>

\* the objects assigned as quickDiffProvider: undefined, a provider without the
\* optional method provideOriginalResource, one whose method returns and one whose
\* method throws
QuickDiffProviders ==
    { [defined |-> FALSE, provideOriginalResource |-> Undef],
      [defined |-> TRUE, provideOriginalResource |-> Undef],
      [defined |-> TRUE, provideOriginalResource |-> "returns"],
      [defined |-> TRUE, provideOriginalResource |-> "throws"] }

\* the quickDiffProvider setter of a source control: the value is kept and
\* { hasQuickDiffProvider: !!quickDiffProvider } is sent, whatever the value was
\* before
SetQuickDiffProvider ==
    \E sc \in DOMAIN scObjects, provider \in QuickDiffProviders :
      \E quickDiffProvider \in {provider.defined} :
        /\ Len(toMirror) < MaxInFlight
        /\ scObjects' = [scObjects EXCEPT
               ![sc].quickDiffProvider = quickDiffProvider,
               ![sc].provideOriginalResource = provider.provideOriginalResource]
        /\ toMirror' = Append(toMirror,
               [method |-> "updateSourceControl", handle |-> sc,
                features |-> [hasQuickDiffProvider |->
                                 IF quickDiffProvider THEN "true" ELSE "false"]])
        /\ UNCHANGED <<scmExtHandlePool, sourceControlHandlePool, groupHandlePool,
                       sourceControls, groups, issuedHandles,
                       selectedSourceControlHandle, mirrorVars,
                       selectionLog, tickFlushed, lastTake, historyVars>>

\* the count setter of a source control (undefined is the empty sequence, a number
\* a sequence of one): a count equal to the current one is ignored
SetCount(counts) ==
    \E sc \in DOMAIN scObjects, count \in counts :
        /\ scObjects[sc].count # <<count>>
        /\ Len(toMirror) < MaxInFlight
        /\ scObjects' = [scObjects EXCEPT ![sc].count = <<count>>]
        /\ toMirror' = Append(toMirror,
               [method |-> "updateSourceControl", handle |-> sc,
                features |-> [count |-> count]])
        /\ UNCHANGED <<scmExtHandlePool, sourceControlHandlePool, groupHandlePool,
                       sourceControls, groups, issuedHandles,
                       selectedSourceControlHandle, mirrorVars,
                       selectionLog, tickFlushed, lastTake, historyVars>>

\* the commitTemplate setter of a source control: a template equal to the current
\* one is ignored
SetCommitTemplate(templates) ==
    \E sc \in DOMAIN scObjects, commitTemplate \in templates :
        /\ scObjects[sc].commitTemplate # commitTemplate
        /\ Len(toMirror) < MaxInFlight
        /\ scObjects' = [scObjects EXCEPT ![sc].commitTemplate = commitTemplate]
        /\ toMirror' = Append(toMirror,
               [method |-> "updateSourceControl", handle |-> sc,
                features |-> [commitTemplate |-> commitTemplate]])
        /\ UNCHANGED <<scmExtHandlePool, sourceControlHandlePool, groupHandlePool,
                       sourceControls, groups, issuedHandles,
                       selectedSourceControlHandle, mirrorVars,
                       selectionLog, tickFlushed, lastTake, historyVars>>

\* (variant: a group is found by its handle whether its source control holds it or not)
getResourceGroupOfAny(scObject, handle) ==
    IF handle \in DOMAIN groups THEN handle ELSE NoHandle

\* ExtHostSourceControl.getResourceGroup: this._groups.get(handle)
getResourceGroup(scObject, handle) ==
    IF handle \in SeqRange(scObject.groups) THEN handle ELSE NoHandle

\* a Mirror-to-Provider call as the model records it: its arguments, the promise
\* returned, the command executed, the events fired on the input box
ProviderCall(method, key, group, resource, promise, executed, fired) ==
    [method |-> method, key |-> key, group |-> group, resource |-> resource,
     promise |-> promise, executed |-> executed, fired |-> fired]

\* ExtHostSourceControlResourceGroup.$executeResourceCommand
groupExecuteResourceCommand(group, handle) ==
    IF handle \notin DOMAIN group.resourceStatesCommandsMap
    THEN [promise |-> ResolvedUndefined, executed |-> Undef]
    ELSE [promise |-> Pending,
          executed |-> group.resourceStatesCommandsMap[handle].command]

\* ScmExtImpl.$executeResourceCommand
executeResourceCommand(key, groupHandle, handle) ==
    IF key \notin DOMAIN sourceControls
    THEN [promise |-> ResolvedUndefined, executed |-> Undef]
    ELSE IF getResourceGroup(scObjects[sourceControls[key]], groupHandle) = NoHandle
    THEN [promise |-> ResolvedUndefined, executed |-> Undef]
    ELSE groupExecuteResourceCommand(
             groups[getResourceGroup(scObjects[sourceControls[key]], groupHandle)],
             handle)

ExecuteResourceCommand(keys, groupHandles, handles) ==
    \E key \in keys, groupHandle \in groupHandles, handle \in handles :
        \E done \in {executeResourceCommand(key, groupHandle, handle)} :
            /\ providerCall' = ProviderCall("executeResourceCommand", key, groupHandle,
                                   handle, done.promise, done.executed, 0)
            /\ UNCHANGED <<providerVars, selectedSourceControlHandle, toMirror,
                           mirrorVars, selectionLog, tickFlushed, lastTake,
                           tickRegistered, announcedGroups, lastFlush>>

\* the promise of $validateInput while it awaits what the plugin's function fn,
\* which it has called, returned
Awaiting(fn) == [promise |-> "pending", undefined |-> FALSE, awaited |-> fn]

\* (variant: an error of the validation function is caught, the call resolves with
\* undefined)
awaitedResultCaught(fn) ==
    IF fn \in {"accept", "rejects"} THEN ResolvedUndefined
    ELSE ResolvedValue(<<"message", 0>>)

\* ScmExtImpl.$validateInput from its await on: an async function, so a rejection
\* of the promise awaited rejects the promise it returned
awaitedResult(fn) ==
    IF fn = "accept" THEN ResolvedUndefined
    ELSE IF fn = "rejects" THEN Rejected
    ELSE ResolvedValue(<<"message", 0>>)

\* ScmExtImpl.$validateInput up to its await: the function installed is called; when
\* it throws, the await is not reached and the promise returned is rejected at
\* once, otherwise the promise returned is pending
validateInput(key) ==
    IF key \notin DOMAIN sourceControls THEN ResolvedUndefined
    ELSE IF scObjects[sourceControls[key]].validateInput = Undef THEN ResolvedUndefined
    ELSE IF scObjects[sourceControls[key]].validateInput = "throws" THEN Rejected
    ELSE Awaiting(scObjects[sourceControls[key]].validateInput)

\* the validator $registerSourceControl installs on the Mirror Side, given the
\* promise $validateInput returned: result && { message: result[0], type: result[1] }
validator(promise) ==
    IF promise.promise # "resolved" \/ promise.undefined THEN promise
    ELSE ResolvedValue([message |-> promise.value[1], type |-> promise.value[2]])

ValidateInput(keys) ==
    \E key \in keys :
        /\ providerCall' = ProviderCall("validateInput", key, NoHandle, NoHandle,
                               validateInput(key), Undef, 0)
        /\ UNCHANGED <<providerVars, selectedSourceControlHandle, toMirror,
                       mirrorVars, selectionLog, tickFlushed, lastTake,
                       tickRegistered, announcedGroups, lastFlush>>

\* the promise the plugin's function returned settles and $validateInput, the call
\* recorded last, goes on from its await
ValidateInputSettles ==
    /\ providerCall.method = "validateInput"
    /\ providerCall.promise.promise = "pending"
    /\ providerCall' = [providerCall EXCEPT
                           !.promise = awaitedResult(providerCall.promise.awaited)]
    /\ UNCHANGED <<providerVars, selectedSourceControlHandle, toMirror,
                   mirrorVars, selectionLog, tickFlushed, lastTake,
                   tickRegistered, announcedGroups, lastFlush>>

\* ScmExtImpl.$onInputBoxValueChange with ScmInputBoxImpl.onInputBoxValueChange
\* and updateValue
OnInputBoxValueChange(keys, values) ==
    \E key \in keys, value \in values :
        /\ IF key \notin DOMAIN sourceControls
           THEN /\ providerCall' = ProviderCall("onInputBoxValueChange", key, NoHandle,
                                       NoHandle, ResolvedUndefined, Undef, 0)
                /\ UNCHANGED scObjects
           ELSE /\ scObjects' = [scObjects EXCEPT
                                    ![sourceControls[key]].inputBoxValue = value]
                /\ providerCall' = ProviderCall("onInputBoxValueChange", key, NoHandle,
                                       NoHandle, ResolvedUndefined, Undef, 1)
        /\ UNCHANGED <<scmExtHandlePool, sourceControlHandlePool, groupHandlePool,
                       sourceControls, groups, issuedHandles,
                       selectedSourceControlHandle, toMirror, mirrorVars,
                       selectionLog, tickFlushed, lastTake,
                       tickRegistered, announcedGroups, lastFlush>>

\* CommandsConverter.toSafeCommand(command, disposables) for each command of a list:
\* every command is registered under the next token of the pool and the
\* registration is pushed to the disposables
SafeCommandTokens(pool, commands) == { pool + i - 1 : i \in 1..Len(commands) }

\* (variant: the setter disposes the collection it replaces)
ReplacedDisposablesDisposed(live, replaced) == live \ replaced

\* this._acceptInputDisposables = new DisposableCollection(): the registrations of
\* the collection that is replaced stay live
ReplacedDisposables(live, replaced) == live

\* the acceptInputCommand setter of a source control
SetAcceptInputCommand(commands) ==
    \E sc \in DOMAIN scObjects, command \in commands :
        /\ Len(toMirror) < MaxInFlight
        /\ scObjects[sc].safeCommandPool < MaxSafeCommands
        /\ \E tokens \in {SafeCommandTokens(scObjects[sc].safeCommandPool, <<command>>)} :
              scObjects' = [scObjects EXCEPT ![sc] =
                  [@ EXCEPT !.acceptInputCommand = command,
                            !.acceptInputDisposables = tokens,
                            !.safeCommandPool = @ + 1,
                            !.safeCommands =
                                ReplacedDisposables(@, scObjects[sc].acceptInputDisposables)
                                    \cup tokens]]
        /\ toMirror' = Append(toMirror,
               [method |-> "updateSourceControl", handle |-> sc,
                features |-> [acceptInputCommand |-> command]])
        /\ UNCHANGED <<scmExtHandlePool, sourceControlHandlePool, groupHandlePool,
                       sourceControls, groups, issuedHandles,
                       selectedSourceControlHandle, mirrorVars, selectionLog,
                       tickFlushed, lastTake, historyVars>>

\* the statusBarCommands setter of a source control: a list equal to the current
\* one is ignored
SetStatusBarCommands(lists) ==
    \E sc \in DOMAIN scObjects, list \in lists :
        /\ Len(toMirror) < MaxInFlight
        /\ scObjects[sc].safeCommandPool + Len(list) <= MaxSafeCommands
        /\ ~(/\ ~IsAbsent(scObjects[sc].statusBarCommands)
              /\ scObjects[sc].statusBarCommands.items = list)
        /\ \E tokens \in {SafeCommandTokens(scObjects[sc].safeCommandPool, list)} :
              scObjects' = [scObjects EXCEPT ![sc] =
                  [@ EXCEPT !.statusBarCommands = [items |-> list],
                            !.statusBarDisposables = tokens,
                            !.safeCommandPool = @ + Len(list),
                            !.safeCommands =
                                ReplacedDisposables(@, scObjects[sc].statusBarDisposables)
                                    \cup tokens]]
        /\ toMirror' = Append(toMirror,
               [method |-> "updateSourceControl", handle |-> sc,
                features |-> [statusBarCommands |-> list]])
        /\ UNCHANGED <<scmExtHandlePool, sourceControlHandlePool, groupHandlePool,
                       sourceControls, groups, issuedHandles,
                       selectedSourceControlHandle, mirrorVars, selectionLog,
                       tickFlushed, lastTake, historyVars>>

\* the value setter of an input box: $setInputBoxValue is sent, then updateValue
SetInputBoxValue(values) ==
    \E sc \in DOMAIN scObjects, value \in values :
        /\ Len(toMirror) < MaxInFlight
        /\ toMirror' = Append(toMirror,
               [method |-> "setInputBoxValue", handle |-> sc, value |-> value])
        /\ scObjects' = [scObjects EXCEPT ![sc].inputBoxValue = value]
        /\ UNCHANGED <<scmExtHandlePool, sourceControlHandlePool, groupHandlePool,
                       sourceControls, groups, issuedHandles,
                       selectedSourceControlHandle, mirrorVars, selectionLog,
                       tickFlushed, lastTake, historyVars>>

\* the placeholder setter of an input box: $setInputBoxPlaceholder is sent, then
\* the placeholder is kept
SetInputBoxPlaceholder(placeholders) ==
    \E sc \in DOMAIN scObjects, placeholder \in placeholders :
        /\ Len(toMirror) < MaxInFlight
        /\ toMirror' = Append(toMirror,
               [method |-> "setInputBoxPlaceholder", handle |-> sc,
                placeholder |-> placeholder])
        /\ scObjects' = [scObjects EXCEPT ![sc].inputBoxPlaceholder = placeholder]
        /\ UNCHANGED <<scmExtHandlePool, sourceControlHandlePool, groupHandlePool,
                       sourceControls, groups, issuedHandles,
                       selectedSourceControlHandle, mirrorVars, selectionLog,
                       tickFlushed, lastTake, historyVars>>

\* the user edits the input of a repository of the Mirror Side
MirrorEdit(values) ==
    \E h \in DOMAIN repositories, value \in values :
        /\ ScmInputFires(repositories[h].inputValue, value)
        /\ Len(toProvider) < MaxInFlight
        /\ repositories' = [repositories EXCEPT ![h].inputValue = value]
        /\ toProvider' = toProvider \o inputOnDidChange(h, value)
        /\ UNCHANGED <<quickOpen, providerVars, selectedSourceControlHandle, toMirror,
                       mirrorOutcome, resourcesChanged, selectionLog, tickFlushed,
                       lastTake, historyVars>>

\* the Provider Side handles the oldest $onInputBoxValueChange call in flight
ProviderDeliver ==
    /\ Len(toProvider) > 0
    /\ toProvider' = Tail(toProvider)
    /\ IF Head(toProvider).handle \notin DOMAIN sourceControls
       THEN /\ providerCall' = ProviderCall("onInputBoxValueChange",
                                   Head(toProvider).handle, NoHandle, NoHandle,
                                   ResolvedUndefined, Undef, 0)
            /\ UNCHANGED scObjects
       ELSE /\ scObjects' = [scObjects EXCEPT
                                ![sourceControls[Head(toProvider).handle]].inputBoxValue
                                    = Head(toProvider).value]
            /\ providerCall' = ProviderCall("onInputBoxValueChange",
                                   Head(toProvider).handle, NoHandle, NoHandle,
                                   ResolvedUndefined, Undef, 1)
    /\ UNCHANGED <<scmExtHandlePool, sourceControlHandlePool, groupHandlePool,
                   sourceControls, groups, issuedHandles,
                   selectedSourceControlHandle, toMirror, repositories, mirrorOutcome,
                   resourcesChanged, selectionLog, tickFlushed, lastTake,
                   tickRegistered, announcedGroups, lastFlush, quickOpen>>

\* ScmExtImpl.$provideOriginalResource: without a source control, a provider or
\* the provider's method it resolves with undefined; otherwise the method runs in
\* the executor of a new promise, which is rejected when the method throws and is
\* never settled when it returns
provideOriginalResource(key) ==
    IF key \notin DOMAIN sourceControls THEN [promise |-> ResolvedUndefined, executed |-> Undef]
    ELSE IF ~scObjects[sourceControls[key]].quickDiffProvider
    THEN [promise |-> ResolvedUndefined, executed |-> Undef]
    ELSE IF scObjects[sourceControls[key]].provideOriginalResource = Undef
    THEN [promise |-> ResolvedUndefined, executed |-> Undef]
    ELSE IF scObjects[sourceControls[key]].provideOriginalResource = "throws"
    THEN [promise |-> Rejected, executed |-> "provideOriginalResource"]
    ELSE [promise |-> Pending, executed |-> "provideOriginalResource"]

ProvideOriginalResource(keys) ==
    \E key \in keys :
        /\ providerCall' = ProviderCall("provideOriginalResource", key, NoHandle, NoHandle,
                               provideOriginalResource(key).promise,
                               provideOriginalResource(key).executed, 0)
        /\ UNCHANGED <<providerVars, selectedSourceControlHandle, toMirror,
                       mirrorVars, selectionLog, tickFlushed, lastTake,
                       tickRegistered, announcedGroups, lastFlush>>

(***************************************************************************)
(* Selection: ScmExtImpl.$setSelectedSourceControl.                        *)
(***************************************************************************)
SelectedSet(objects) == { h \in DOMAIN objects : objects[h].selected }

\* (variant: the event is fired only when the source control becomes selected)
setSelectionStateQuiet(objects, key, selected) ==
    IF key = NoHandle \/ key \notin DOMAIN sourceControls
    THEN [objects |-> objects, fired |-> <<>>]
    ELSE LET h == sourceControls[key]
             after == [objects EXCEPT ![h].selected = selected]
         IN [objects |-> after,
             fired |-> IF selected
                       THEN <<[handle |-> h, selected |-> selected,
                               observed |-> SelectedSet(after)]>>
                       ELSE <<>>]

\* ExtHostSourceControl.setSelectionState on the object stored under key, if any:
\* the objects afterwards and the onDidChangeSelection event fired
setSelectionState(objects, key, selected) ==
    IF key = NoHandle \/ key \notin DOMAIN sourceControls
    THEN [objects |-> objects, fired |-> <<>>]
    ELSE LET h == sourceControls[key]
             after == [objects EXCEPT ![h].selected = selected]
         IN [objects |-> after,
             fired |-> <<[handle |-> h, selected |-> selected,
                          observed |-> SelectedSet(after)]>>]

\* (variant: the previous source control is deselected first)
SelectionStepsOldFirst(selectedHandle, previousHandle) ==
    <<[key |-> previousHandle, selected |-> FALSE],
      [key |-> selectedHandle, selected |-> TRUE]>>

\* the two steps of $setSelectedSourceControl, in the order the handler takes them
SelectionSteps(selectedHandle, previousHandle) ==
    <<[key |-> selectedHandle, selected |-> TRUE],
      [key |-> previousHandle, selected |-> FALSE]>>

SetSelectedSourceControl ==
    \E selectedHandle \in {NoHandle} \cup 0..scmExtHandlePool :
        LET steps == SelectionSteps(selectedHandle, selectedSourceControlHandle)
            first == setSelectionState(scObjects, steps[1].key, steps[1].selected)
            second == setSelectionState(first.objects, steps[2].key, steps[2].selected)
        IN /\ scObjects' = second.objects
           /\ selectionLog' = first.fired \o second.fired
           /\ selectedSourceControlHandle' = selectedHandle
           /\ UNCHANGED <<scmExtHandlePool, sourceControlHandlePool, groupHandlePool,
                          sourceControls, groups, issuedHandles, toMirror, mirrorVars,
                          tickFlushed, lastTake, historyVars>>

(***************************************************************************)
(* QuickFileOpenService (file-search/src/browser/quick-file-open.ts).      *)
(***************************************************************************)
\* the variables the QuickFileOpenService leaves alone
scmVars == <<providerVars, selectedSourceControlHandle, toMirror, repositories,
             mirrorOutcome, resourcesChanged, toProvider, selectionLog, tickFlushed,
             lastTake, historyVars>>

\* this.cancelIndicator.cancel(): the newest token source is cancelled
CancelIndicator(q) == [q EXCEPT !.cancelled[Len(q.cancelled)] = TRUE]

\* QuickFileOpenService.open
QuickOpenOpen ==
    /\ quickOpen' = IF quickOpen.isOpen
                    THEN [quickOpen EXCEPT !.hideIgnoredFiles = ~@]
                    ELSE [quickOpen EXCEPT !.hideIgnoredFiles = TRUE,
                                           !.currentLookFor = "",
                                           !.isOpen = TRUE]
    /\ UNCHANGED scmVars

\* the onClose of getOptions, whatever isOpen was
QuickOpenClose ==
    /\ quickOpen' = CancelIndicator([quickOpen EXCEPT !.isOpen = FALSE])
    /\ UNCHANGED scmVars

\* QuickFileOpenService.onType, the dialog open or not, in a workspace with roots
\* or without: the indicator is cancelled and replaced; a non-empty lookFor starts
\* a file search under the new token, an empty one passes the recently used items
\* to the acceptor when the workspace has a root and nothing when it has none
OnType(lookFors, workspaces) ==
    \E lookFor \in lookFors, hasRoots \in workspaces :
        /\ Len(quickOpen.cancelled) <= MaxSearches
        /\ \E q \in {[CancelIndicator(quickOpen) EXCEPT
                          !.cancelled = Append(@, FALSE),
                          !.currentLookFor = lookFor]} :
              quickOpen' =
                  IF lookFor # ""
                  THEN [q EXCEPT !.pending = @ \cup {Len(q.cancelled)}]
                  ELSE IF ~hasRoots THEN q
                  ELSE [q EXCEPT !.accepted =
                           Append(@, [token |-> Len(q.cancelled), items |-> "recent"])]
        /\ UNCHANGED scmVars

\* (variant: the handler does not look at its token)
handlerUnchecked(q, token, results) ==
    [q EXCEPT !.accepted =
        Append(@, [token |-> token,
                   items |-> IF Len(results) <= 0 THEN "noResults" ELSE "results"])]

\* the handler onType passes to find(...).then, run with the results of the search
\* started under `token`
handler(q, token, results) ==
    IF q.cancelled[token] THEN [q EXCEPT !.dropped = @ \cup {token}]
    ELSE [q EXCEPT !.accepted =
             Append(@, [token |-> token,
                        items |-> IF Len(results) <= 0 THEN "noResults" ELSE "results"])]

\* the promise of fileSearchService.find settles: resolved, the handler runs with
\* the results; rejected, nothing runs
FindSettles(outcomes) ==
    \E token \in quickOpen.pending, outcome \in outcomes :
        /\ \E q \in {[quickOpen EXCEPT !.pending = @ \ {token}]} :
              quickOpen' = IF outcome.rejected THEN q
                           ELSE handler(q, token, outcome.results)
        /\ UNCHANGED scmVars

\* the texts typed and the ways a file search ends
LookFors == {"", "a"}

FindOutcomes ==
    { [rejected |-> FALSE, results |-> <<>>],
      [rejected |-> FALSE, results |-> <<"a.txt">>],
      [rejected |-> TRUE, results |-> <<>>] }

NextQuickOpen ==
    \/ QuickOpenOpen
    \/ QuickOpenClose
    \/ OnType(LookFors, BOOLEAN)
    \/ FindSettles(FindOutcomes)

SpecQuickOpen == Init /\ [][NextQuickOpen]_vars

(***************************************************************************)
(* Specifications.                                                         *)
(***************************************************************************)
\* one source control with one group, its flushes and the Mirror Side
Next ==
    \/ CreateSourceControl({"git"})
    \/ CreateResourceGroup({"index"})
    \/ SetResourceStates(DeclaredArrays)
    \/ DisposeGroup
    \/ DisposeSourceControl
    \/ EndTick
    \/ MirrorDeliver

Spec == Init /\ [][Next]_vars

\* the handle pools: several source controls and groups
\* (here the plugin acts when the Mirror Side has handled every call sent)
NextRegistry ==
    \/ toMirror = <<>> /\ CreateSourceControl(SourceControlIds)
    \/ toMirror = <<>> /\ CreateResourceGroup(GroupIds)
    \/ toMirror = <<>> /\ SetResourceStates(FewDeclaredArrays)
    \/ toMirror = <<>> /\ DisposeGroup
    \/ toMirror = <<>> /\ DisposeSourceControl
    \/ MirrorDeliver

SpecRegistry == Init /\ [][NextRegistry]_vars

\* selection changes arriving from the Mirror Side
NextSel ==
    \/ CreateSourceControl(SourceControlIds)
    \/ DisposeSourceControl
    \/ SetSelectedSourceControl
    \/ MirrorDeliver

SpecSel == Init /\ [][NextSel]_vars

\* one group object, no listener attached, whose resourceStates is assigned and
\* whose snapshot is taken by direct calls
InitGroup(arrays) ==
    /\ scmExtHandlePool = 0
    /\ sourceControlHandlePool = 0
    /\ groupHandlePool = DrawHandle(0).pool
    /\ sourceControls = EmptyMap
    /\ scObjects = EmptyMap
    /\ \E resources \in arrays :
           groups = MapSet(EmptyMap, DrawHandle(0).handle,
                       [NewResourceGroup(DrawHandle(0).handle, NoHandle, "index")
                           EXCEPT !.resourceStates = resources])
    /\ selectedSourceControlHandle = NoHandle
    /\ toMirror = <<>>
    /\ repositories = EmptyMap
    /\ mirrorOutcome = "none"
    /\ selectionLog = <<>>
    /\ issuedHandles = [sourceControl |-> <<>>, group |-> <<DrawHandle(0).handle>>,
                        resource |-> MapSet(EmptyMap, DrawHandle(0).handle, <<>>),
                        afterDisposal |-> FALSE]
    /\ tickFlushed = {}
    /\ lastTake = NoTake
    /\ resourcesChanged = 0
    /\ tickRegistered = {}
    /\ announcedGroups = {}
    /\ providerCall = NoCall
    /\ lastFlush = "none"
    /\ toProvider = <<>>
    /\ quickOpen = NewQuickOpen

InitDiff == InitGroup(DiffArrays)

NextDiff ==
    \/ SetResourceStates(DiffArrays)
    \/ TakeSnapshot(MaxResourceHandles)

SpecDiff == InitDiff /\ [][NextDiff]_vars

\* the arrays of the scenario: three different files out of four, in any order
ScenarioSnapshot == <<Plain("a.txt"), Plain("b.txt"), Plain("c.txt")>>

ScenarioDeclared == <<Plain("a.txt"), Plain("c.txt"), Plain("d.txt")>>

ScenarioFiles == {"a.txt", "b.txt", "c.txt", "d.txt"}

ScenarioArrays ==
    UNION { { [i \in 1..n |-> Plain(files[i])] :
                files \in { f \in [1..n -> ScenarioFiles] :
                               \A i, j \in 1..n : i # j => f[i] # f[j] } } :
            n \in Len(ScenarioSnapshot)..MaxScenarioLen }

InitScenario == InitGroup(ScenarioArrays)

NextScenario ==
    \/ SetResourceStates(ScenarioArrays)
    \/ TakeSnapshot(MaxScenarioHandles)

SpecScenario == InitScenario /\ [][NextScenario]_vars

\* resource states of one file that differ in their decorations only
OrderResourceStates ==
    { Decorated("b.txt", "true", "false"), Decorated("b.txt", "false", "true"),
      Decorated("b.txt", "false", "false"), Decorated("b.txt", Undef, Undef) }

OrderArrays == SeqsUpTo(OrderResourceStates, MaxLen)

InitOrder == InitGroup(OrderArrays)

NextOrder ==
    \/ SetResourceStates(OrderArrays)
    \/ TakeSnapshot(MaxResourceHandles)

SpecOrder == InitOrder /\ [][NextOrder]_vars

\* resource states of one file that differ in their context value only, and another
\* file
ContextResourceStates ==
    { Plain("a.txt"), Plain("b.txt"), [Plain("b.txt") EXCEPT !.contextValue = "x"] }

ContextArrays == SeqsUpTo(ContextResourceStates, MaxLen)

InitContext == InitGroup(ContextArrays)

NextContext ==
    \/ SetResourceStates(ContextArrays)
    \/ TakeSnapshot(MaxResourceHandles)

SpecContext == InitContext /\ [][NextContext]_vars

\* the resource states assigned where the handle tables are under study: one
\* without command, one with a plugin command, one with a built-in command
TableResourceStates ==
    { Plain("a.txt"), WithCommand("a.txt", "git.open"), WithCommand("b.txt", "theia.open") }

TableArrays == SeqsUpTo(TableResourceStates, MaxLen)

InitTables == InitGroup(TableArrays)

\* one group object whose resources carry commands, assigned and snapshot by
\* direct calls
NextTables ==
    \/ SetResourceStates(TableArrays)
    \/ TakeSnapshot(MaxResourceHandles)

SpecTables == InitTables /\ [][NextTables]_vars

\* one source control whose groups are created and assigned within scheduling ticks
NextTick ==
    \/ CreateSourceControl({"git"})
    \/ CreateResourceGroup(GroupIds)
    \/ SetResourceStates(FewDeclaredArrays)
    \/ EndTick
    \/ MirrorDeliver

SpecTick == Init /\ [][NextTick]_vars

\* the labels and flags a plugin assigns to a group
GroupLabels == {"Staged"}

HideWhenEmptyValues == {"true"}

\* every operation of a source control and of its group, with delivery
NextOps ==
    \/ CreateSourceControl({"git"})
    \/ CreateResourceGroup({"index"})
    \/ SetResourceStates(FewDeclaredArrays)
    \/ SetGroupLabel(GroupLabels)
    \/ SetHideWhenEmpty(HideWhenEmptyValues)
    \/ DisposeGroup
    \/ DisposeSourceControl
    \/ MirrorDeliver

SpecOps == Init /\ [][NextOps]_vars

\* the handles calls with no referent are made with
StaleHandles == {0, 1}

\* one source control and its group, and calls that name handles never issued
NextStale ==
    \/ CreateSourceControl({"git"})
    \/ CreateResourceGroup({"index"})
    \/ DisposeGroup
    \/ StaleCall(StaleHandles, {1})
    \/ MirrorDeliver
    \/ MainDispose

SpecStale == Init /\ [][NextStale]_vars

\* the arrays assigned where the commands of resources are under study
CommandArrays == { <<>>, <<Plain("a.txt"), WithCommand("b.txt", "git.open")>> }

\* the handles the Mirror Side calls the Provider Side with
CalledHandles == {0, 1}

InputBoxValues == {"message"}

\* one source control and its group, under the calls of the Mirror Side
\* (here the plugin acts and is called when the Mirror Side has handled every
\* call sent)
NextCalls ==
    \/ toMirror = <<>> /\ CreateSourceControl({"git"})
    \/ toMirror = <<>> /\ CreateResourceGroup({"index"})
    \/ toMirror = <<>> /\ SetResourceStates(CommandArrays)
    \/ toMirror = <<>> /\ SetValidateInput(InputValidators)
    \/ toMirror = <<>> /\ SetQuickDiffProvider
    \/ toMirror = <<>> /\ DisposeGroup
    \/ toMirror = <<>> /\ DisposeSourceControl
    \/ MirrorDeliver
    \/ toMirror = <<>>
          /\ ExecuteResourceCommand(CalledHandles, CalledHandles, CalledHandles)
    \/ toMirror = <<>> /\ ValidateInput(CalledHandles)
    \/ ValidateInputSettles
    \/ toMirror = <<>> /\ OnInputBoxValueChange(CalledHandles, InputBoxValues)
    \/ toMirror = <<>> /\ ProvideOriginalResource(CalledHandles)

SpecCalls == Init /\ [][NextCalls]_vars

\* source controls whose validation function is set and called
NextValidate ==
    \/ toMirror = <<>> /\ CreateSourceControl({"git", "hg"})
    \/ toMirror = <<>> /\ CreateResourceGroup({"index"})
    \/ toMirror = <<>> /\ SetValidateInput(AllInputValidators)
    \/ toMirror = <<>> /\ DisposeSourceControl
    \/ MirrorDeliver
    \/ toMirror = <<>> /\ ValidateInput(CalledHandles)
    \/ ValidateInputSettles

SpecValidate == Init /\ [][NextValidate]_vars

\* the commands assigned as acceptInputCommand and in statusBarCommands
AcceptInputCommands == {"git.commit", "git.push"}

StatusBarCommandLists == {<<"git.sync">>, <<"git.sync", "git.checkout">>}

\* the counts and the commit templates assigned
Counts == {1, 2}

CommitTemplates == {"fix: "}

\* one source control whose commands are assigned and which is disposed
NextCommands ==
    \/ CreateSourceControl({"git"})
    \/ SetAcceptInputCommand(AcceptInputCommands)
    \/ SetStatusBarCommands(StatusBarCommandLists)
    \/ SetCount(Counts)
    \/ SetCommitTemplate(CommitTemplates)
    \/ DisposeSourceControl
    \/ MirrorDeliver

SpecCommands == Init /\ [][NextCommands]_vars

\* the texts written to and typed into an input box
InputTexts == {"message", "x"}

Placeholders == {"Message"}

\* one source control whose input box is written by the plugin and edited by the
\* user
NextInput ==
    \/ CreateSourceControl({"git"})
    \/ SetInputBoxValue(InputTexts)
    \/ SetInputBoxPlaceholder(Placeholders)
    \/ MirrorEdit(InputTexts)
    \/ MirrorDeliver
    \/ ProviderDeliver
    \/ MainDispose
    \/ DisposeSourceControl

SpecInput == Init /\ [][NextInput]_vars

\* an item in the shape $spliceGroupResourceStates decodes: the flat tuple
\* [handle, sourceUri, icons, tooltip, strikeThrough, faded, contextValue, command]
TupleItem(handle) ==
    JsArray(<<handle, <<"a.txt">>, <<>>, "", Undef, Undef, "", Absent>>)

\* the splices [start, deleteCount, rawResources] a call may carry, in bounds for
\* the list of the group or not
TupleSplices ==
    { JsArray(<<start, deleteCount, items>>) :
        start \in 0..MaxLen, deleteCount \in 0..1,
        items \in {<<>>, <<TupleItem(0)>>, <<TupleItem(1)>>} }

TupleBatches == UNION { [1..n -> TupleSplices] : n \in 1..2 }

\* a $spliceResourceStates call arrives whose batch has the shape the Mirror Side
\* decodes, for a group the Mirror Side may hold
TupleSpliceCall(batches) ==
    \E g \in DOMAIN groups, batch \in batches :
        /\ toMirror = <<>>
        /\ \A h \in DOMAIN repositories :
              g \in DOMAIN repositories[h].groupsByHandle
                  => Len(repositories[h].groupsByHandle[g].resources) <= MaxLen
        /\ toMirror' = <<[method |-> "spliceResourceStates",
                          handle |-> groups[g].sourceControlHandle,
                          splices |-> <<JsArray(<<g, batch>>)>>]>>
        /\ UNCHANGED <<providerVars, selectedSourceControlHandle, mirrorVars,
                       selectionLog, tickFlushed, lastTake, historyVars>>

\* one source control and its group, under batches in the decoded shape
NextMalformed ==
    \/ CreateSourceControl({"git"})
    \/ CreateResourceGroup({"index"})
    \/ TupleSpliceCall(TupleBatches)
    \/ MirrorDeliver

SpecMalformed == Init /\ [][NextMalformed]_vars

(***************************************************************************)
(* Properties.                                                             *)
(***************************************************************************)
HandlesOf(resources) == [i \in 1..Len(resources) |-> resources[i].handle]

NoDuplicates(s) == \A i, j \in 1..Len(s) : i # j => s[i] # s[j]

StrictlyIncreasing(s) == \A i, j \in 1..Len(s) : i < j => s[i] < s[j]

Occurrences(s, x) == Cardinality({ i \in 1..Len(s) : s[i] = x })

IsPermutation(s, t) ==
    /\ Len(s) = Len(t)
    /\ \A x \in SeqRange(s) \cup SeqRange(t) : Occurrences(s, x) = Occurrences(t, x)

\* group g exists on the Mirror Side
MirrorHasGroup(g) ==
    /\ groups[g].sourceControlHandle \in DOMAIN repositories
    /\ g \in DOMAIN repositories[groups[g].sourceControlHandle].groupsByHandle

MirrorGroupOf(g) == repositories[groups[g].sourceControlHandle].groupsByHandle[g]

\* C1: once every call the Provider Side sent has been handled by the Mirror
\* Side, in send order, the resource list of every group the Mirror Side holds
\* carries, position by position, the handles of the provider's handle list
\* aligned to its last sorted snapshot.
C1_MirrorMatchesSnapshot ==
    toMirror = <<>> =>
        \A g \in DOMAIN groups :
            MirrorHasGroup(g) =>
                HandlesOf(MirrorGroupOf(g).resources) = groups[g].handlesSnapshot

\* a list of resources after the splices were applied by PluginScmResourceGroup.splice,
\* last splice first as $spliceGroupResourceStates applies them
RECURSIVE SplicedFrom(_, _, _)
SplicedFrom(group, rawSplices, k) ==
    IF k = 0 THEN group.resources
    ELSE SplicedFrom(MirrorGroupSplice(group, rawSplices[k].start, rawSplices[k].deleteCount,
                                       rawSplices[k].rawResources),
                     rawSplices, k - 1)

SplicedIntoEmpty(rawSplices) ==
    SplicedFrom(NewMirrorGroup(0, "index", "index", [hideWhenEmpty |-> Undef]),
                rawSplices, Len(rawSplices))

\* C2: a snapshot taken by a group whose previous snapshot is empty returns
\* splices that, applied to an empty mirror list, give as many items as the
\* declared array holds, and the item at every position is the state (found by its
\* handle) that compares equal to the state at that position of the sorted
\* declared array.
C2_RoundTrip ==
    [][\A g \in DOMAIN groups :
          (~lastTake'.pending /\ groups[g].resourceSnapshot = <<>>) =>
              LET mirrored == SplicedIntoEmpty(lastTake'.splices)
                  sorted == SortResourceStates(groups[g].resourceStates)
              IN /\ Len(mirrored) = Len(groups[g].resourceStates)
                 /\ \A i \in 1..Len(mirrored) :
                       /\ mirrored[i].handle \in DOMAIN groups'[g].resourceStatesMap
                       /\ compareResourceStates(
                              groups'[g].resourceStatesMap[mirrored[i].handle],
                              sorted[i]) = 0]_vars

\* the first snapshot of a group took an unsorted array of two states
C2_Witness ==
    /\ ~lastTake.pending
    /\ Len(lastTake.splices) = 1
    /\ \E g \in DOMAIN groups :
          /\ groups[g].handlesSnapshot = <<0, 1>>
          /\ groups[g].resourceHandlePool = Len(groups[g].handlesSnapshot)
          /\ Len(lastTake.splices[1].rawResources) = Len(groups[g].handlesSnapshot)
          /\ groups[g].resourceStates # groups[g].resourceSnapshot

\* C3: a snapshot taken right after another, with no assignment to resourceStates
\* in between, returns no splice, draws no resource handle and retires none.
C3_Idempotent ==
    [][(~lastTake.pending /\ ~lastTake'.pending) =>
          /\ lastTake'.splices = <<>>
          /\ \A g \in DOMAIN groups :
                /\ groups'[g].resourceHandlePool = groups[g].resourceHandlePool
                /\ groups'[g].handlesSnapshot = groups[g].handlesSnapshot
                /\ groups'[g].resourceStatesMap = groups[g].resourceStatesMap
                /\ groups'[g].resourceStatesCommandsMap = groups[g].resourceStatesCommandsMap
                /\ groups'[g].resourceStatesDisposablesMap
                       = groups[g].resourceStatesDisposablesMap]_vars

\* a second snapshot in a row was taken of a group that holds two resources
C3_Witness ==
    /\ ~lastTake.pending
    /\ lastTake.repeated
    /\ \E g \in DOMAIN groups : Len(groups[g].handlesSnapshot) >= 2

\* C4: a snapshot taken when resourceStates holds a permutation of the array
\* flushed before it (the same states, each as many times) returns no splice.
C4_StableUnderPermutation ==
    [][\A g \in DOMAIN groups :
          (~lastTake'.pending
           /\ IsPermutation(groups[g].resourceStates, groups[g].resourceSnapshot))
          => lastTake'.splices = <<>>]_vars

\* C5: no two live resources of a group share a handle: the handles of the
\* provider's handle list are pairwise different, and so are the handles of the
\* resources of every mirror group.
C5_UniqueHandles ==
    /\ \A g \in DOMAIN groups : NoDuplicates(groups[g].handlesSnapshot)
    /\ \A sc \in DOMAIN repositories :
          \A g \in DOMAIN repositories[sc].groupsByHandle :
              NoDuplicates(HandlesOf(repositories[sc].groupsByHandle[g].resources))

\* a group known to the Mirror Side holds two resources after one was spliced out
C5_Witness ==
    \E g \in DOMAIN groups :
        /\ MirrorHasGroup(g)
        /\ Len(groups[g].handlesSnapshot) >= 2
        /\ groups[g].resourceHandlePool > Len(groups[g].handlesSnapshot)

\* C6: the handles drawn for source controls, for groups and, in each group, for
\* resources are strictly increasing, so none is drawn twice, whatever was
\* disposed or spliced out in between.
C6_HandlesNeverReused ==
    /\ StrictlyIncreasing(issuedHandles.sourceControl)
    /\ StrictlyIncreasing(issuedHandles.group)
    /\ \A g \in DOMAIN issuedHandles.resource :
          StrictlyIncreasing(issuedHandles.resource[g])

\* a source control was created after another was disposed, a second group was
\* created after the first was disposed, and a group drew a handle after its
\* first resource was spliced out
C6_Witness ==
    /\ issuedHandles.afterDisposal
    /\ Len(issuedHandles.group) >= 2
    /\ groups[issuedHandles.group[1]].disposed
    /\ \E g \in DOMAIN groups :
          /\ Len(issuedHandles.resource[g]) >= 2
          /\ issuedHandles.resource[g][1] \notin SeqRange(groups[g].handlesSnapshot)

\* the events ({handle, selected}) of a handler's onDidChangeSelection log
SelectionEvents(log) == [i \in 1..Len(log) |-> <<log[i].handle, log[i].selected>>]

\* the handler ran for a registered source control other than the selected one
SelectionChange ==
    /\ selectedSourceControlHandle' # selectedSourceControlHandle
    /\ selectedSourceControlHandle' \in DOMAIN sourceControls
    /\ selectedSourceControlHandle \in DOMAIN sourceControls

\* C7: when $setSelectedSourceControl(X) arrives for a registered X while another
\* source control Y is the selected one, exactly one event with value true fires,
\* on X, exactly one with value false fires, on Y, and no other event fires.
C7_SelectionExclusive ==
    [][SelectionChange =>
          LET x == sourceControls[selectedSourceControlHandle']
              y == sourceControls[selectedSourceControlHandle]
              events == SelectionEvents(selectionLog')
          IN /\ Len(events) = 2
             /\ Occurrences(events, <<x, TRUE>>) = 1
             /\ Occurrences(events, <<y, FALSE>>) = 1]_vars

\* a handler fired one event with true and one with false, on two source controls
C7_Witness ==
    /\ Len(selectionLog) = 2
    /\ \E i, j \in 1..2 :
          /\ selectionLog[i].selected
          /\ ~selectionLog[j].selected
          /\ selectionLog[i].handle # selectionLog[j].handle
          /\ selectedSourceControlHandle \in DOMAIN sourceControls
          /\ sourceControls[selectedSourceControlHandle] = selectionLog[i].handle

\* C8: on a selection change from Y to X the handler marks and notifies X as
\* selected first (Y's flag is then still what it was) and marks and notifies Y as
\* deselected after that.
C8_SelectionOrder ==
    [][SelectionChange =>
          LET x == sourceControls[selectedSourceControlHandle']
              y == sourceControls[selectedSourceControlHandle]
          IN /\ Len(selectionLog') = 2
             /\ selectionLog'[1].handle = x /\ selectionLog'[1].selected
             /\ x \in selectionLog'[1].observed
             /\ (y \in selectionLog'[1].observed) = scObjects[y].selected
             /\ selectionLog'[2].handle = y /\ ~selectionLog'[2].selected
             /\ y \notin selectionLog'[2].observed]_vars

\* the new source control was notified while the previous one was still marked
C8_Witness ==
    /\ Len(selectionLog) = 2
    /\ selectionLog[1].selected
    /\ Cardinality(selectionLog[1].observed) = 2
    /\ selectionLog[2].handle \in selectionLog[1].observed
    /\ selectionLog[2].handle \notin selectionLog[2].observed

\* C9: whenever an observer can read the selected flags, between handlers or in
\* an onDidChangeSelection callback, at most one source control is marked
\* selected, and at least one is while a source control is recorded as selected.
C9_ExactlyOneSelected ==
    /\ Cardinality(SelectedSet(scObjects)) <= 1
    /\ \A i \in 1..Len(selectionLog) : Cardinality(selectionLog[i].observed) <= 1
    /\ selectedSourceControlHandle \in DOMAIN sourceControls
          => Cardinality(SelectedSet(scObjects)) >= 1

\* the spliceResourceStates calls in flight for source control sc
SpliceCallsFor(calls, sc) ==
    Cardinality({ i \in 1..Len(calls) :
                    calls[i].method = "spliceResourceStates" /\ calls[i].handle = sc })

\* C10: within one scheduling tick a source control sends at most one
\* spliceResourceStates call: once it has sent one, no step of the same tick
\* sends another.
C10_OneSpliceCallPerTick ==
    [][\A sc \in tickFlushed \cap tickFlushed' :
          SpliceCallsFor(toMirror', sc) <= SpliceCallsFor(toMirror, sc)]_vars

\* the registerGroups calls in flight for source control sc
RegisterCallsFor(calls, sc) ==
    Cardinality({ i \in 1..Len(calls) :
                    calls[i].method = "registerGroups" /\ calls[i].handle = sc })

\* C11: the groups a source control creates within one scheduling tick are
\* announced by a single registerGroups call: once the source control has sent
\* one, no step of the same tick sends another.
C11_OneRegisterCallPerTick ==
    [][\A sc \in tickRegistered \cap tickRegistered' :
          RegisterCallsFor(toMirror', sc) <= RegisterCallsFor(toMirror, sc)]_vars

\* the group handles a call names
GroupsNamed(call) ==
    IF call.method = "registerGroups" THEN AnnouncedBy(call)
    ELSE IF call.method = "spliceResourceStates"
    THEN { call.splices[i].handle : i \in 1..Len(call.splices) }
    ELSE IF call.method \in {"updateGroup", "updateGroupLabel", "unregisterGroup"}
    THEN {call.group}
    ELSE {}

\* the calls a step sends
SentBy(before, after) ==
    IF Len(after) > Len(before) THEN SubSeq(after, Len(before) + 1, Len(after)) ELSE <<>>

\* C12: a group is announced by a registerGroups call before any other call names
\* it: every spliceResourceStates, updateGroup, updateGroupLabel or unregisterGroup
\* call a step sends names only groups that an earlier step announced, a
\* registerGroups call in flight announces no group named by a call ahead of it,
\* and a group of the Mirror Side holds a list of resources (possibly empty) from
\* the step that creates it.
C12_RegisteredBeforeNamed ==
    [][/\ \A i \in 1..Len(SentBy(toMirror, toMirror')) :
             SentBy(toMirror, toMirror')[i].method # "registerGroups"
                 => GroupsNamed(SentBy(toMirror, toMirror')[i]) \subseteq announcedGroups
       /\ \A i \in 1..Len(toMirror'), j \in 1..Len(toMirror') :
             (i < j /\ toMirror'[j].method = "registerGroups")
                 => GroupsNamed(toMirror'[i]) \cap AnnouncedBy(toMirror'[j]) = {}
       /\ \A h \in DOMAIN repositories' :
             \A g \in DOMAIN repositories'[h].groupsByHandle :
                 (h \notin DOMAIN repositories
                      \/ g \notin DOMAIN repositories[h].groupsByHandle)
                     => /\ mirrorOutcome' = "ok"
                        /\ DOMAIN repositories'[h].groupsByHandle[g].resources
                               = 1..Len(repositories'[h].groupsByHandle[g].resources)]_vars

\* a relabelled group that was announced is known to the Mirror Side under its
\* new label, with an empty list of resources
C12_Witness ==
    /\ toMirror = <<>>
    /\ \E h \in DOMAIN repositories :
          \E g \in DOMAIN repositories[h].groupsByHandle :
             /\ g \in announcedGroups
             /\ repositories[h].groupsByHandle[g].label \in GroupLabels
             /\ repositories[h].groupsByHandle[g].features.hideWhenEmpty = "true"
             /\ repositories[h].groupsByHandle[g].resources = <<>>

\* C13: a flush of an empty change set sends nothing, and no call in flight
\* carries a group with an empty list of splices: an assignment to resourceStates
\* that leaves the snapshot of a registered group as it was sends no call, a
\* spliceResourceStates call holds at least one group, and every group entry of a
\* spliceResourceStates or registerGroups call holds at least one splice.
C13_NoEmptyFlush ==
    [][/\ \A g \in DOMAIN groups :
             (/\ groups[g].listening
              /\ groups'[g].resourceStates # groups[g].resourceStates
              /\ groups'[g].handlesSnapshot = groups[g].handlesSnapshot)
                 => toMirror' = toMirror
       /\ \A i \in 1..Len(toMirror') :
             toMirror'[i].method \in {"spliceResourceStates", "registerGroups"}
                 => /\ toMirror'[i].method = "spliceResourceStates"
                           => Len(toMirror'[i].splices) > 0
                    /\ \A k \in 1..Len(toMirror'[i].splices) :
                           Len(toMirror'[i].splices[k].splices) > 0]_vars

\* the last assignment reordered the two resources of a registered group: the
\* snapshot did not change and no call is in flight
C13_Witness ==
    /\ lastFlush = "empty"
    /\ toMirror = <<>>
    /\ \E g \in DOMAIN groups :
          /\ groups[g].listening
          /\ Len(groups[g].resourceSnapshot) = 2
          /\ groups[g].resourceStates # groups[g].resourceSnapshot

\* the step is the Mirror Side handling the oldest call in flight
Delivered == Len(toMirror) > 0 /\ toMirror' = Tail(toMirror)

\* C14: every batch of splices the Mirror Side applies for a registered source
\* control, carried by a registerGroups or a spliceResourceStates call, fires
\* exactly one resources-changed notification.
C14_OneNotificationPerBatch ==
    [][(/\ Delivered
        /\ Head(toMirror).method \in {"registerGroups", "spliceResourceStates"}
        /\ Head(toMirror).handle \in DOMAIN repositories)
           => resourcesChanged' = 1]_vars

\* a list of resources after the splices were applied first splice first, each
\* against the list as the earlier ones left it
RECURSIVE SplicedLeftToRight(_, _, _)
SplicedLeftToRight(group, rawSplices, k) ==
    IF k > Len(rawSplices) THEN group.resources
    ELSE SplicedLeftToRight(
             MirrorGroupSplice(group, rawSplices[k].start, rawSplices[k].deleteCount,
                               rawSplices[k].rawResources),
             rawSplices, k + 1)

\* C15: when the Mirror Side has handled a spliceResourceStates call the Provider
\* Side sent, the resource list of every group the batch names and the Mirror Side
\* holds is the list that applying the received splices of that group left to
\* right, each against the list as the earlier splices left it, ends with.
C15_LeftToRightApplication ==
    [][(/\ Delivered
        /\ Head(toMirror).method = "spliceResourceStates"
        /\ Head(toMirror).handle \in DOMAIN repositories)
          => \A k \in 1..Len(Head(toMirror).splices) :
                Head(toMirror).splices[k].handle
                      \in DOMAIN repositories[Head(toMirror).handle].groupsByHandle
                  => HandlesOf(repositories'[Head(toMirror).handle]
                                  .groupsByHandle[Head(toMirror).splices[k].handle]
                                  .resources)
                       = HandlesOf(SplicedLeftToRight(
                             repositories[Head(toMirror).handle]
                                 .groupsByHandle[Head(toMirror).splices[k].handle],
                             Head(toMirror).splices[k].splices, 1))]_vars

\* C16: a call handled by the Mirror Side that names a source control handle not
\* registered, or a group handle its source control does not know, ends without
\* error and leaves the repositories, their groups and the groups' resources as
\* they were.
C16_StaleCallsIgnored ==
    [][(Delivered /\ Stale(Head(toMirror), repositories))
          => (mirrorOutcome' = "ok" /\ repositories' = repositories)]_vars

\* a call recorded names a source control key that is in no registry, or a group
\* its source control does not hold, or a resource handle for which its group
\* holds no command: a lookup of the handler finds nothing
NoReferent(call) ==
    \/ call.key \notin DOMAIN sourceControls
    \/ /\ call.method = "executeResourceCommand"
       /\ (\/ call.group \notin SeqRange(scObjects[sourceControls[call.key]].groups)
           \/ call.resource \notin DOMAIN groups[call.group].resourceStatesCommandsMap)

\* the call names a handle without a registered referent: a lookup of the handler
\* finds nothing, or the source control named was disposed, and so unregistered
NoRegisteredReferent(call) ==
    \/ NoReferent(call)
    \/ scObjects[sourceControls[call.key]].disposed

\* C17: executeResourceCommand, validateInput, onInputBoxValueChange and
\* provideOriginalResource called with a source control, group or resource handle
\* that has no registered referent resolve with undefined, execute no command,
\* fire no event and leave the state of the Provider Side as it was.
C17_StaleProviderCalls ==
    [][(providerCall' # providerCall /\ NoRegisteredReferent(providerCall'))
          => /\ providerCall'.promise = ResolvedUndefined
             /\ providerCall'.executed = Undef
             /\ providerCall'.fired = 0
             /\ UNCHANGED <<providerVars, selectedSourceControlHandle, toMirror,
                            selectionLog>>]_vars

\* C18: after ExtHostSourceControl.dispose a Mirror-to-Provider call that names
\* the handle of the disposed source control is a no-op: it resolves with
\* undefined, runs nothing of the plugin, changes no state of the disposed
\* source control and fires none of its events.
C18_DisposedHandleIsInvalid ==
    [][/\ (/\ providerCall' # providerCall
           /\ providerCall'.key \in DOMAIN sourceControls
           /\ scObjects[sourceControls[providerCall'.key]].disposed)
             => /\ providerCall'.promise = ResolvedUndefined
                /\ providerCall'.executed = Undef
                /\ providerCall'.fired = 0
                /\ scObjects' = scObjects
       /\ (selectionLog' # selectionLog
               \/ selectedSourceControlHandle' # selectedSourceControlHandle)
             => \A h \in DOMAIN scObjects :
                   scObjects[h].disposed
                       => /\ scObjects'[h] = scObjects[h]
                          /\ \A i \in 1..Len(selectionLog') :
                                 selectionLog'[i].handle # h]_vars

\* C19: once the Mirror Side has handled every call sent, a disposed source
\* control has no repository there, and so no group and no resource.
C19_DisposedLeavesNothing ==
    toMirror = <<>> =>
        \A sc \in DOMAIN scObjects :
            scObjects[sc].disposed => sc \notin DOMAIN repositories

\* a source control was disposed together with a group that had declared
\* resources, next to one that is still registered, and the Mirror Side has
\* handled every call
C19_Witness ==
    /\ toMirror = <<>>
    /\ mirrorOutcome = "ok"
    /\ DOMAIN repositories # {}
    /\ \E sc \in DOMAIN scObjects :
          /\ scObjects[sc].disposed
          /\ sc \notin DOMAIN repositories
          /\ \E g1, g2 \in DOMAIN groups :
                /\ g1 # g2
                /\ \A g \in {g1, g2} :
                      /\ groups[g].sourceControlHandle = sc
                      /\ groups[g].disposed
                      /\ Len(groups[g].handlesSnapshot) >= 1

\* C20: the step that disposes a source control sends one unregisterGroup call
\* for each of its registered groups and then unregisterSourceControl, and
\* unregisterSourceControl is the last call naming the source control that the
\* Provider Side ever sends: no later step sends a call with its handle.
C20_UnregisterIsLast ==
    [][\A i \in 1..Len(SentBy(toMirror, toMirror')) :
          /\ SentBy(toMirror, toMirror')[i].handle \in DOMAIN scObjects
                => ~scObjects[SentBy(toMirror, toMirror')[i].handle].disposed
          /\ SentBy(toMirror, toMirror')[i].method = "unregisterSourceControl"
                => /\ i = Len(SentBy(toMirror, toMirror'))
                   /\ i = Len(scObjects[SentBy(toMirror, toMirror')[i].handle].groups) + 1
                   /\ \A j \in 1..(i - 1) :
                         SentBy(toMirror, toMirror')[j]
                             = UnregisterGroupCall(
                                   SentBy(toMirror, toMirror')[i].handle,
                                   scObjects[SentBy(toMirror, toMirror')[i].handle].groups[j])]_vars

\* C21: once a group is disposed no step sends a registerGroups or a
\* spliceResourceStates call with an entry that names its handle, whatever is
\* assigned to its resourceStates afterwards.
C21_NoSpliceAfterDispose ==
    [][\A i \in 1..Len(SentBy(toMirror, toMirror')) :
          SentBy(toMirror, toMirror')[i].method \in {"registerGroups", "spliceResourceStates"}
              => \A g \in GroupsNamed(SentBy(toMirror, toMirror')[i]) \cap DOMAIN groups :
                     ~groups[g].disposed]_vars

\* a disposed group was assigned an array of another length than its last
\* snapshot, and no call is in flight
C21_Witness ==
    /\ toMirror = <<>>
    /\ \E g \in DOMAIN groups :
          /\ groups[g].disposed
          /\ Len(groups[g].resourceSnapshot) >= 1
          /\ Len(groups[g].resourceStates) # Len(groups[g].resourceSnapshot)

\* C22: a disposed group no longer listens for updates, owns no resource handle
\* (its handle-to-state, handle-to-command and handle-to-disposable tables are
\* empty and every disposable it held was disposed), and the step that disposes it
\* sends unregisterGroup for its handle.
C22_DisposedGroupOwnsNothing ==
    [][\A g \in DOMAIN groups :
          groups'[g].disposed
              => /\ ~groups'[g].listening
                 /\ DOMAIN groups'[g].resourceStatesMap = {}
                 /\ DOMAIN groups'[g].resourceStatesCommandsMap = {}
                 /\ DOMAIN groups'[g].resourceStatesDisposablesMap = {}
                 /\ ~groups[g].disposed
                       => \E i \in 1..Len(SentBy(toMirror, toMirror')) :
                              SentBy(toMirror, toMirror')[i]
                                  = UnregisterGroupCall(groups[g].sourceControlHandle, g)]_vars

\* C23: after every _takeResourceStateSnapshot the handle list has the length of
\* the sorted snapshot, the keys of the handle-to-state table are exactly the
\* handles of the list, the command and disposable tables hold no other handle,
\* and every handle the snapshot put into the list was never issued before in
\* the group.
C23_HandlesAlignedWithSnapshot ==
    [][~lastTake'.pending =>
          \A g \in DOMAIN groups :
              /\ Len(groups'[g].handlesSnapshot) = Len(groups'[g].resourceSnapshot)
              /\ Len(groups'[g].resourceSnapshot) = Len(groups[g].resourceStates)
              /\ NoDuplicates(groups'[g].handlesSnapshot)
              /\ DOMAIN groups'[g].resourceStatesMap = SeqRange(groups'[g].handlesSnapshot)
              /\ DOMAIN groups'[g].resourceStatesCommandsMap
                     \subseteq SeqRange(groups'[g].handlesSnapshot)
              /\ DOMAIN groups'[g].resourceStatesDisposablesMap
                     \subseteq SeqRange(groups'[g].handlesSnapshot)
              /\ SeqRange(groups'[g].handlesSnapshot) \ SeqRange(groups[g].handlesSnapshot)
                     = SeqRange(InsertedHandles(lastTake'.splices))
              /\ SeqRange(InsertedHandles(lastTake'.splices))
                     \cap SeqRange(issuedHandles.resource[g]) = {}]_vars

\* the last snapshot retired the handle of a resource with a command and issued a
\* new one, and the list holds a resource with a plugin command and one with a
\* built-in command
C23_Witness ==
    /\ ~lastTake.pending
    /\ \E g \in DOMAIN groups :
          /\ Len(groups[g].handlesSnapshot) = 2
          /\ groups[g].resourceHandlePool > 2
          /\ DOMAIN groups[g].resourceStatesCommandsMap # {}
          /\ DOMAIN groups[g].resourceStatesDisposablesMap # {}
          /\ groups[g].disposedDisposables # {}
          /\ InsertedHandles(lastTake.splices) # <<>>

\* C24: when the flushed snapshot of a group is [a.txt, b.txt, c.txt] and an
\* array holding a.txt, c.txt and d.txt is assigned, the snapshot returns exactly
\* two splices against the previous array: one that deletes one item at index 1,
\* the index of b.txt, and one that inserts d.txt at index 3; a.txt and c.txt keep
\* their handles and d.txt gets the next handle of the pool.
C24_RemoveOneAddOne ==
    [][\A g \in DOMAIN groups :
          (/\ ~lastTake'.pending
           /\ groups[g].resourceSnapshot = ScenarioSnapshot
           /\ IsPermutation(groups[g].resourceStates, ScenarioDeclared))
              => /\ lastTake'.splices
                       = <<[start |-> 1, deleteCount |-> 1, rawResources |-> <<>>],
                           [start |-> 3, deleteCount |-> 0,
                            rawResources |->
                                <<RawResource(groups[g].resourceHandlePool,
                                              Plain("d.txt"))>>]>>
                 /\ groups'[g].handlesSnapshot
                       = <<groups[g].handlesSnapshot[1], groups[g].handlesSnapshot[3],
                           groups[g].resourceHandlePool>>
                 /\ groups'[g].resourceSnapshot = ScenarioDeclared]_vars

\* the snapshot [a.txt, b.txt, c.txt] became [a.txt, c.txt, d.txt]: the first two
\* handles are the first and third issued, the last is the newest
C24_Witness ==
    /\ ~lastTake.pending
    /\ Len(lastTake.splices) = 2
    /\ \E g \in DOMAIN groups :
          /\ groups[g].resourceSnapshot = ScenarioDeclared
          /\ groups[g].handlesSnapshot = <<0, 2, 3>>
          /\ groups[g].resourceHandlePool = 4

\* two resource states have the same path and the same command, and both carry
\* decorations
SameButDecorations(a, b) ==
    /\ a.resourceUri = b.resourceUri
    /\ a.command = b.command
    /\ ~IsAbsent(a.decorations)
    /\ ~IsAbsent(b.decorations)

\* C25: in the sorted snapshot of a group, among the resource states of one path
\* and one command, no struck-through state stands after a state that is not
\* struck through, and among those with equal strike-through flags no faded state
\* stands after a state that is not faded.
C25_StruckThroughAndFadedFirst ==
    \A g \in DOMAIN groups :
        \A i, j \in 1..Len(groups[g].resourceSnapshot) :
            (i < j /\ SameButDecorations(groups[g].resourceSnapshot[i],
                                         groups[g].resourceSnapshot[j]))
                => LET a == groups[g].resourceSnapshot[i].decorations
                       b == groups[g].resourceSnapshot[j].decorations
                   IN /\ ~(~Truthy(a.strikeThrough) /\ Truthy(b.strikeThrough))
                      /\ a.strikeThrough = b.strikeThrough
                            => ~(~Truthy(a.faded) /\ Truthy(b.faded))

\* the resource states a group holds, declared or flushed
Compared ==
    UNION { SeqRange(groups[g].resourceStates) \cup SeqRange(groups[g].resourceSnapshot) :
            g \in DOMAIN groups }

\* the sign of a number
Sign(n) == IF n < 0 THEN -1 ELSE IF n > 0 THEN 1 ELSE 0

\* C26: compareResourceStates is a total order on the resource states a group
\* holds: a state compares equal to itself, the sign of compare(a, b) is the
\* opposite of the sign of compare(b, a), also when a flag is absent on one side
\* and false on the other, and compare(a, b) <= 0 and compare(b, c) <= 0 imply
\* compare(a, c) <= 0.
C26_TotalOrder ==
    \A a, b \in Compared :
        /\ compareResourceStates(a, a) = 0
        /\ Sign(compareResourceStates(a, b)) = -Sign(compareResourceStates(b, a))
        /\ \A c \in Compared :
              (compareResourceStates(a, b) <= 0 /\ compareResourceStates(b, c) <= 0)
                  => compareResourceStates(a, c) <= 0

\* the entry of a batch is a tuple (group handle, splices), each of its splices a
\* tuple (start, deleteCount, items), and each item a flat tuple of eight fields
\* (handle, source URI, icon list, tooltip, strike-through, faded, context value,
\* command)
DecodableEntry(entry) ==
    /\ IsArray(entry)
    /\ Len(entry.array) = 2
    /\ \A k \in 1..Len(entry.array[2]) :
          /\ IsArray(entry.array[2][k])
          /\ Len(entry.array[2][k].array) = 3
          /\ \A j \in 1..Len(entry.array[2][k].array[3]) :
                /\ IsArray(entry.array[2][k].array[3][j])
                /\ Len(entry.array[2][k].array[3][j].array) = 8

\* the items the splices of a decodable entry insert
RECURSIVE ItemsOf(_, _)
ItemsOf(rawSplices, k) ==
    IF k > Len(rawSplices) THEN <<>>
    ELSE rawSplices[k].array[3] \o ItemsOf(rawSplices, k + 1)

\* C27: every batch of a registerGroups or spliceResourceStates call the Provider
\* Side sent for a registered source control has the shape the Mirror Side
\* decodes: the handler ends without error, every entry is a tuple (handle,
\* splices) of tuples (start, deleteCount, items) of flat item tuples, and every
\* item of a group the Mirror Side holds becomes a resource of that group with the
\* encoded handle, URI, decorations, context value and command.
C27_PayloadDecodes ==
    [][(/\ Delivered
        /\ Head(toMirror).method \in {"registerGroups", "spliceResourceStates"}
        /\ Head(toMirror).handle \in DOMAIN repositories)
           => /\ mirrorOutcome' = "ok"
              /\ \A i \in 1..Len(Head(toMirror).splices) :
                    /\ DecodableEntry(Head(toMirror).splices[i])
                    /\ LET entry == Head(toMirror).splices[i].array
                           provider == repositories'[Head(toMirror).handle]
                       IN entry[1] \in DOMAIN provider.groupsByHandle
                             => \A item \in SeqRange(ItemsOf(entry[2], 1)) :
                                    MirrorResource(entry[1], item.array)
                                        \in SeqRange(provider.groupsByHandle[entry[1]].resources)]_vars

\* the raw resources a splice list inserts, in order
RECURSIVE InsertedRawResources(_)
InsertedRawResources(rawSplices) ==
    IF Len(rawSplices) = 0 THEN <<>>
    ELSE rawSplices[1].rawResources \o InsertedRawResources(Tail(rawSplices))

\* C28: after every snapshot, the wire item of an inserted resource whose command
\* is a built-in trusted one carries the command as a plain descriptor; an
\* inserted resource with any other command has a registration tied to a
\* disposable the group holds under the resource's handle, and when the handle of
\* such a resource is retired that disposable is disposed.
C28_SafeCommands ==
    [][~lastTake'.pending =>
          \A g \in DOMAIN groups :
              /\ \A item \in SeqRange(InsertedRawResources(lastTake'.splices)) :
                    LET r == groups'[g].resourceStatesMap[item.handle] IN
                    ~IsAbsent(r.command)
                        => IF IsBuiltinCommand(r.command.command)
                           THEN item.command = toSafeCommand(r.command)
                           ELSE item.handle \in DOMAIN groups'[g].resourceStatesDisposablesMap
              /\ \A h \in DOMAIN groups[g].resourceStatesMap :
                    (/\ h \notin DOMAIN groups'[g].resourceStatesMap
                     /\ ~IsAbsent(groups[g].resourceStatesMap[h].command)
                     /\ ~IsBuiltinCommand(groups[g].resourceStatesMap[h].command.command))
                        => h \in groups'[g].disposedDisposables]_vars

\* C29: a validateInput call for a registered source control calls the validation
\* function installed and, once what that function returned has settled, resolves
\* with (message, severity), which the validator of the Mirror Side hands on as the
\* message and its type, when the function yielded a result, and with undefined
\* when it yielded none; it resolves with undefined at once when no validation
\* function is installed; when the function throws or rejects, the call is
\* rejected to the caller; and at every step of the call the source-control map,
\* the source controls, the groups and their handle tables are as before.
C29_ValidateInputRoundTrip ==
    [][(/\ providerCall' # providerCall
        /\ providerCall'.method = "validateInput"
        /\ providerCall'.key \in DOMAIN sourceControls)
           => LET fn == scObjects[sourceControls[providerCall'.key]].validateInput IN
              /\ UNCHANGED <<sourceControls, scObjects, groups>>
              /\ providerCall'.promise.promise = "pending"
                    => fn # Undef /\ providerCall'.promise = Awaiting(fn)
              /\ providerCall'.promise.promise = "pending" => fn # "throws"
              /\ providerCall'.promise.promise # "pending"
                    => \/ fn = Undef /\ providerCall'.promise = ResolvedUndefined
                       \/ /\ fn = "throws"
                          /\ providerCall'.promise = Rejected
                          /\ validator(providerCall'.promise) = Rejected
                       \/ /\ providerCall.method = "validateInput"
                          /\ providerCall.key = providerCall'.key
                          /\ providerCall.promise.promise = "pending"
                          /\ providerCall.promise.awaited = "reject"
                                => /\ providerCall'.promise
                                         = ResolvedValue(<<"message", 0>>)
                                   /\ validator(providerCall'.promise)
                                         = ResolvedValue([message |-> "message",
                                                          type |-> 0])
                          /\ providerCall.promise.awaited = "accept"
                                => /\ providerCall'.promise = ResolvedUndefined
                                   /\ validator(providerCall'.promise)
                                         = ResolvedUndefined
                          /\ providerCall.promise.awaited = "rejects"
                                => /\ providerCall'.promise = Rejected
                                   /\ validator(providerCall'.promise) = Rejected]_vars

\* a validateInput call for a source control whose validation function returned a
\* promise that was rejected was itself rejected, after the plugin had installed
\* another function while the call was pending, and that source control holds a
\* group
C29_Witness ==
    /\ providerCall.method = "validateInput"
    /\ providerCall.promise = Rejected
    /\ providerCall.key \in DOMAIN sourceControls
    /\ scObjects[sourceControls[providerCall.key]].validateInput = "accept"
    /\ scObjects[sourceControls[providerCall.key]].groups # <<>>

\* a list of resources after the splices were applied from the i-th on, where the
\* first splice whose start or deleteCount is out of bounds for the list ends the
\* application and changes nothing
RECURSIVE AppliedUntilOutOfBounds(_, _, _)
AppliedUntilOutOfBounds(group, groupSlices, i) ==
    IF i > Len(groupSlices) THEN group.resources
    ELSE LET start == groupSlices[i].array[1]
             deleteCount == groupSlices[i].array[2]
             rawResources == groupSlices[i].array[3]
         IN IF start > Len(group.resources) \/ start + deleteCount > Len(group.resources)
            THEN group.resources
            ELSE AppliedUntilOutOfBounds(
                     MirrorGroupSplice(group, start, deleteCount,
                         [j \in 1..Len(rawResources) |->
                             MirrorResource(group.handle, rawResources[j].array)]),
                     groupSlices, i + 1)

\* C30: when the Mirror Side applies the splices of a batch to a group it holds,
\* in the order it takes them (last first), a splice whose start or deleteCount is
\* out of bounds for the current list changes nothing and ends the application:
\* the splices applied before it stay applied, the remaining ones are not.
C30_MalformedSpliceAborts ==
    [][(/\ Delivered
        /\ Head(toMirror).method = "spliceResourceStates"
        /\ Head(toMirror).handle \in DOMAIN repositories)
           => \A i \in 1..Len(Head(toMirror).splices) :
                  LET entry == Head(toMirror).splices[i]
                      before == repositories[Head(toMirror).handle]
                      after == repositories'[Head(toMirror).handle]
                  IN (IsArray(entry) /\ entry.array[1] \in DOMAIN before.groupsByHandle)
                        => after.groupsByHandle[entry.array[1]].resources
                              = AppliedUntilOutOfBounds(
                                    before.groupsByHandle[entry.array[1]],
                                    Reverse(entry.array[2]), 1)]_vars

\* C31: whenever no call is in flight in either direction, the value of the
\* input box of every source control the Mirror Side holds equals the value of
\* the input of its repository, whatever writes of the plugin and edits of the
\* user came before, in whatever order their calls were handled.
C31_InputValuesConverge ==
    (toMirror = <<>> /\ toProvider = <<>>)
        => \A h \in DOMAIN repositories :
               h \in DOMAIN scObjects
                   => scObjects[h].inputBoxValue = repositories[h].inputValue

\* the plugin wrote one text and the user typed another while the calls were in
\* flight, and every call has been handled
C31_Witness ==
    /\ toMirror = <<>>
    /\ toProvider = <<>>
    /\ providerCall.method = "onInputBoxValueChange"
    /\ \E h \in DOMAIN repositories :
          /\ h \in DOMAIN scObjects
          /\ scObjects[h].inputBoxValue = "x"
          /\ repositories[h].inputValue = "x"

\* C32: after $setSelectedSourceControl has been handled for the key of a
\* registered source control, that source control is marked selected and its key
\* is the recorded selected handle, whatever handle was recorded before, the
\* same one included.
C32_SelectedAfterSelecting ==
    [][(SetSelectedSourceControl /\ selectedSourceControlHandle' \in DOMAIN sourceControls)
          => scObjects'[sourceControls[selectedSourceControlHandle']].selected]_vars

\* C33: a group that has been disposed, and whose unregisterGroup call has
\* therefore been sent, is named by no later unregisterGroup, updateGroup or
\* updateGroupLabel call, whatever the plugin disposes or assigns afterwards.
C33_UnregisteredOnce ==
    [][\A i \in 1..Len(SentBy(toMirror, toMirror')) :
          SentBy(toMirror, toMirror')[i].method
                \in {"unregisterGroup", "updateGroup", "updateGroupLabel"}
              => ~groups[SentBy(toMirror, toMirror')[i].group].disposed]_vars

\* C34: every Mirror-to-Provider call completes: executeResourceCommand on a
\* resource handle that has a registered command runs that command, and
\* provideOriginalResource on a source control with a quick-diff provider runs the
\* provider, and in both cases the promise returned is one that settles.
C34_CallsSettle ==
    providerCall.method \in {"executeResourceCommand", "provideOriginalResource"}
        => /\ providerCall.promise # Pending
           /\ providerCall.promise.promise \in {"resolved", "rejected"}

\* C35: when a setter replaces the acceptInputCommand or the statusBarCommands of
\* a source control, no registration made for the replaced value is live
\* afterwards, and when a source control is disposed none of its registrations is
\* live afterwards.
C35_SafeCommandsReleased ==
    [][\A sc \in DOMAIN scObjects :
          /\ scObjects'[sc].acceptInputDisposables # scObjects[sc].acceptInputDisposables
                => scObjects[sc].acceptInputDisposables \cap scObjects'[sc].safeCommands = {}
          /\ scObjects'[sc].statusBarDisposables # scObjects[sc].statusBarDisposables
                => scObjects[sc].statusBarDisposables \cap scObjects'[sc].safeCommands = {}
          /\ (~scObjects[sc].disposed /\ scObjects'[sc].disposed)
                => scObjects'[sc].safeCommands = {}]_vars

\* C36: after every snapshot, the wire item of each resource of the handle list,
\* as it was sent under its handle, carries the attributes (source URI, icons,
\* tooltip, strike-through, faded, context value, command) of the resource state
\* declared at its position: a declared state whose wire attributes changed was
\* replaced by a splice.
C36_WireAttributesCurrent ==
    [][~lastTake'.pending =>
          \A g \in DOMAIN groups :
              \A i \in 1..Len(groups'[g].handlesSnapshot) :
                  RawResource(groups'[g].handlesSnapshot[i],
                              groups'[g].resourceStatesMap[groups'[g].handlesSnapshot[i]])
                      = RawResource(groups'[g].handlesSnapshot[i],
                                    groups'[g].resourceSnapshot[i])]_vars

\* C37: every source control is stored in the handle map of ScmExtImpl under the
\* handle it registered itself with and sends in its calls, and every source
\* control created is in the map, after any creations and disposals.
C37_KeyIsHandle ==
    /\ \A key \in DOMAIN sourceControls :
          /\ sourceControls[key] = key
          /\ scObjects[sourceControls[key]].handle = key
    /\ DOMAIN sourceControls = DOMAIN scObjects
    /\ \A i \in 1..Len(toMirror) :
          toMirror[i].method = "registerSourceControl"
              => /\ toMirror[i].handle \in DOMAIN sourceControls
                 /\ scObjects[sourceControls[toMirror[i].handle]].id = toMirror[i].id

\* two source controls are stored, one of them created after another was disposed
C37_Witness ==
    /\ issuedHandles.afterDisposal
    /\ Cardinality(DOMAIN sourceControls) >= 2
    /\ \E key \in DOMAIN sourceControls : scObjects[sourceControls[key]].disposed
    /\ \E key \in DOMAIN sourceControls : ~scObjects[sourceControls[key]].disposed

\* what the step passed to an acceptor
AcceptedBy(before, after) ==
    IF Len(after.accepted) > Len(before.accepted)
    THEN SubSeq(after.accepted, Len(before.accepted) + 1, Len(after.accepted))
    ELSE <<>>

\* C38: whenever search results (or the no-results item) are passed to an
\* acceptor, they are those of the search the most recent onType call started, and
\* neither a later onType call nor the closing of the dialog has cancelled it: the
\* results of an earlier search, or of one pending when the dialog was closed, are
\* never passed on.
C38_OnlyLatestSearchDelivers ==
    [][\A i \in 1..Len(AcceptedBy(quickOpen, quickOpen')) :
          AcceptedBy(quickOpen, quickOpen')[i].items \in {"results", "noResults"}
              => /\ AcceptedBy(quickOpen, quickOpen')[i].token = Len(quickOpen.cancelled)
                 /\ ~quickOpen.cancelled[AcceptedBy(quickOpen, quickOpen')[i].token]]_vars

\* an earlier search settled after a later onType call and passed nothing on, the
\* later search passed its results on, and a third was pending when the dialog
\* was closed
C38_Witness ==
    /\ 2 \in quickOpen.dropped
    /\ \E i \in 1..Len(quickOpen.accepted) :
          quickOpen.accepted[i] = [token |-> 3, items |-> "results"]
    /\ ~quickOpen.isOpen
    /\ 4 \in quickOpen.dropped

====
